---------------------------- MODULE Spec2Model ----------------------------
(***************************************************************************)
(* Client-side encryption of the Reflections app: the key storage service  *)
(* (keyStorage.ts), the crypto primitives (crypto.ts) and the              *)
(* useEncryption hook (useEncryption.ts).                                  *)
(*                                                                         *)
(* Byte buffers, the text that is encrypted and the base64 of bytes are    *)
(* sequences of numbers, encoded and decoded as the code does.  The other  *)
(* strings are modelled by their structure: JSON.stringify(v) is           *)
(* [json |-> v], btoa of JSON text s is [b64 |-> s], and any other text is *)
(* [text |-> "..."].  A CryptoKey handle is [raw |-> bytes].  Decoding is  *)
(* partial: it fails where atob / JSON.parse / importKey throw.            *)
(*                                                                         *)
(* An async function is a call record in the bag `calls`: its synchronous  *)
(* prefix runs in the step that starts it, and the part after its await on *)
(* the platform crypto promise runs in the step that completes it (the     *)
(* continuation up to the caller's own continuation is one run of          *)
(* microtasks with no suspension on an external event).                    *)
(***************************************************************************)
EXTENDS Integers, FiniteSets, Sequences, Bags, TLC

\* ------------------------------------------------------------- bounds
MaxKeys == 2        \* keys the secure generator hands out in one run
MaxTime == 1        \* the clock Date.now() reads, 0..MaxTime
MaxCalls == 2       \* async calls in flight at once
MaxPayloads == 1    \* encrypted payloads kept for later decryption
MaxEncryptions == 2 \* encryptions in a run that only encrypts

Users == {"u1", "u2"}
Bindings == {"b1"}
\* Every instance of the hook: b2 is the hook of a second component.
Instances == {"b1", "b2"}
\* "hi" as UTF-16 code units, and the first bytes of a PNG file.
Texts == {<<104, 105>>}
Files == {<<137, 80>>}

\* ------------------------------------------------ program constants
KEY_PREFIX == "reflections_encryption_key_"
METADATA_PREFIX == "reflections_key_metadata_"
KEY_VERSION == "1.0"
KEY_ALGORITHM == "AES-256-GCM"
ALGORITHM == "AES-GCM"
KEY_LENGTH == 256

\* ------------------------------------------------------ null values
Null == [null |-> TRUE]          \* JavaScript null / undefined
NoUser == "none"                 \* user?.id is undefined
NoError == "null"                \* the hook's error state is null
App == "app"                     \* a call made by application code, not a hook

\* ---------------------------------------------------- error messages
ErrGenerate == "Failed to generate encryption key"
ErrRetrieve == "Failed to retrieve encryption key"
ErrExport == "Failed to export encryption key"
ErrImport == "Failed to import encryption key. The backup may be corrupted."
ErrImportKey == "Failed to import encryption key"
ErrNoKey == "Encryption key not available"
ErrInit == "Failed to initialize encryption"
ErrDecryptText == "Failed to decrypt text. Data may be corrupted or key is incorrect."
ErrDecryptFile == "Failed to decrypt file. Data may be corrupted or key is incorrect."
Ok == "ok"

\* ----------------------------------------------------------- codec
\* A byte buffer is a sequence of 0..255.  A string of text is the sequence
\* of its UTF-16 code units.  A base64 string is [keyB64 |-> digits], digits
\* being its characters: 0..63 for the alphabet, Pad for '=', NotBase64 for
\* a character outside the alphabet.
IV_LENGTH == 12
Pad == 64
NotBase64 == 65

\* Outcomes of the secure generator: r in RawKeys yields a 256-bit key,
\* ForeignRaw being one generated on another device; BadRaw and ShortRaw
\* name byte strings that are no generated key, of 24 and of 128 bits.
ForeignRaw == 9
RawKeys == (1..MaxKeys) \cup {ForeignRaw}
BadRaw == 0
ShortRaw == 8

\* A buffer given byte by byte, as the array of its bytes.
Uint8Array(f) == f \o <<>>

KeyBits(r) == IF r = BadRaw THEN 24 ELSE IF r = ShortRaw THEN 128 ELSE KEY_LENGTH

\* crypto.subtle.exportKey('raw', key): the bytes of the key that the
\* generator's outcome r stands for.
KeyBytes(r) ==
  Uint8Array([i \in 1..(KeyBits(r) \div 8) |-> ((r * 29 + i * 7) % 256)])

\* btoa over the binary string of a buffer: each group of three bytes
\* becomes four digits of six bits, and a last group of one or two bytes is
\* padded with '='.  ByteAt is 0 past the end of the buffer.
ByteAt(b, i) == IF i <= Len(b) THEN b[i] ELSE 0

Base64Digit(b, k) ==
  LET g == 3 * ((k - 1) \div 4)
      j == (k - 1) % 4 IN
  IF j = 0 THEN ByteAt(b, g + 1) \div 4
  ELSE IF j = 1 THEN (ByteAt(b, g + 1) % 4) * 16 + (ByteAt(b, g + 2) \div 16)
  ELSE IF j = 2
    THEN IF g + 2 > Len(b) THEN Pad
         ELSE (ByteAt(b, g + 2) % 16) * 4 + (ByteAt(b, g + 3) \div 64)
  ELSE IF g + 3 > Len(b) THEN Pad ELSE ByteAt(b, g + 3) % 64

Base64Digits(b) ==
  Uint8Array([k \in 1..(4 * ((Len(b) + 2) \div 3)) |-> Base64Digit(b, k)])

\* atob: one or two '=' ending a string of a multiple of four characters
\* are dropped before decoding.
StripPad(d) ==
  IF Len(d) > 0 /\ Len(d) % 4 = 0 /\ d[Len(d)] = Pad
  THEN IF d[Len(d) - 1] = Pad THEN SubSeq(d, 1, Len(d) - 2)
                              ELSE SubSeq(d, 1, Len(d) - 1)
  ELSE d

\* atob throws unless what is left is alphabet only and not 1 mod 4 long.
AtobAccepts(d) ==
  /\ Len(StripPad(d)) % 4 # 1
  /\ StripPad(d) \in Seq(0..63)

\* atob: each group of four digits becomes three bytes; the bits left over
\* in a last group of two or three digits are discarded.
Base64Byte(d, m) ==
  LET g == 4 * ((m - 1) \div 3)
      j == (m - 1) % 3 IN
  IF j = 0 THEN d[g + 1] * 4 + (d[g + 2] \div 16)
  ELSE IF j = 1 THEN (d[g + 2] % 16) * 16 + (d[g + 3] \div 4)
  ELSE (d[g + 3] % 4) * 64 + d[g + 4]

Base64Bytes(d) ==
  Uint8Array([m \in 1..(3 * (Len(d) \div 4)
                + (IF Len(d) % 4 = 0 THEN 0 ELSE (Len(d) % 4) - 1)) |->
                Base64Byte(d, m)])

\* Faulty variant of ArrayBufferToBase64: the buffer goes through a 7-bit
\* text encoding and loses the top bit of every byte.
ArrayBufferToBase64_SevenBit(buffer) ==
  [keyB64 |-> Base64Digits(Uint8Array([i \in 1..Len(buffer) |-> (buffer[i] % 128)]))]

\* arrayBufferToBase64: bytes -> base64 string.
ArrayBufferToBase64(buffer) == [keyB64 |-> Base64Digits(buffer)]

\* base64ToArrayBuffer: atob throws on a string that is not base64.
IsBase64Key(s) == "keyB64" \in DOMAIN s /\ AtobAccepts(s.keyB64)
Base64ToArrayBuffer(s) == Base64Bytes(StripPad(s.keyB64))

\* crypto.subtle.importKey('raw', ...) for AES-GCM takes a key of 128, 192
\* or 256 bits; the length member of its algorithm argument is not read.
AesKeyBits == {128, 192, 256}

\* crypto.subtle.importKey('raw', rawKey, ...): a CryptoKey handle is
\* [raw |-> the bytes of the key]; Null stands for the DataError it
\* rejects with.
ImportKey(rawKey) ==
  IF Len(rawKey) * 8 \in AesKeyBits THEN [raw |-> rawKey] ELSE Null

\* importEncryptionKey: decode, then crypto.subtle.importKey('raw', ...);
\* Null stands for the thrown 'Failed to import encryption key'.
ImportEncryptionKey(keyData) ==
  IF ~IsBase64Key(keyData) THEN Null
  ELSE ImportKey(Base64ToArrayBuffer(keyData))

\* Faulty variant of GenerateEncryptionKey: the generator repeats itself.
GenerateEncryptionKey_Fixed(r) ==
  [key |-> [raw |-> KeyBytes(1)], keyData |-> ArrayBufferToBase64(KeyBytes(1))]

\* generateEncryptionKey: the handle and its exportable form, for the
\* outcome r of the generator.
GenerateEncryptionKey(r) ==
  [key |-> [raw |-> KeyBytes(r)], keyData |-> ArrayBufferToBase64(KeyBytes(r))]

\* The empty string, and JavaScript's !v for a string or null.
EmptyString == [text |-> ""]
Falsy(v) == v = Null \/ v = EmptyString

\* JSON text and the base64 of JSON text, by their structure.
JsonStringify(v) == [json |-> v]
IsJson(s) == "json" \in DOMAIN s
JsonParse(s) == s.json
Btoa(s) == [b64 |-> s]
IsBase64(s) == "b64" \in DOMAIN s
Atob(s) == s.b64

\* ------------------------------------------------------- text codec
\* The UTF-8 bytes of a code point.
Utf8(cp) ==
  IF cp < 128 THEN <<cp>>
  ELSE IF cp < 2048 THEN <<192 + (cp \div 64), 128 + (cp % 64)>>
  ELSE IF cp < 65536
    THEN <<224 + (cp \div 4096), 128 + ((cp \div 64) % 64), 128 + (cp % 64)>>
  ELSE <<240 + (cp \div 262144), 128 + ((cp \div 4096) % 64),
         128 + ((cp \div 64) % 64), 128 + (cp % 64)>>

IsHighSurrogate(u) == u \in 55296..56319
IsLowSurrogate(u) == u \in 56320..57343
ReplacementChar == 65533
ByteOrderMark == 65279

\* new TextEncoder().encode(text): a surrogate pair is one code point, and a
\* surrogate without its partner is encoded as U+FFFD.
RECURSIVE TextEncode(_)
TextEncode(text) ==
  IF Len(text) = 0 THEN <<>>
  ELSE IF /\ IsHighSurrogate(text[1])
          /\ Len(text) >= 2
          /\ IsLowSurrogate(text[2])
    THEN Utf8(65536 + (text[1] - 55296) * 1024 + (text[2] - 56320))
           \o TextEncode(SubSeq(text, 3, Len(text)))
  ELSE IF IsHighSurrogate(text[1]) \/ IsLowSurrogate(text[1])
    THEN Utf8(ReplacementChar) \o TextEncode(Tail(text))
  ELSE Utf8(text[1]) \o TextEncode(Tail(text))

\* The UTF-16 code units of a code point.
Utf16(cp) ==
  IF cp < 65536 THEN <<cp>>
  ELSE <<55296 + ((cp - 65536) \div 1024), 56320 + ((cp - 65536) % 1024)>>

IsContinuation(b, i) == i <= Len(b) /\ b[i] \in 128..191

\* The UTF-8 decoder: a byte that starts no well-formed sequence decodes to
\* U+FFFD.
RECURSIVE Utf8Decode(_)
Utf8Decode(b) ==
  IF Len(b) = 0 THEN <<>>
  ELSE IF b[1] < 128
    THEN <<b[1]>> \o Utf8Decode(Tail(b))
  ELSE IF b[1] \in 194..223 /\ IsContinuation(b, 2)
    THEN Utf16((b[1] - 192) * 64 + (b[2] - 128))
           \o Utf8Decode(SubSeq(b, 3, Len(b)))
  ELSE IF /\ b[1] \in 224..239 /\ IsContinuation(b, 2) /\ IsContinuation(b, 3)
          /\ (b[1] - 224) * 4096 + (b[2] - 128) * 64 >= 2048
          /\ (b[1] - 224) * 4096 + (b[2] - 128) * 64 \notin 55296..57343
    THEN Utf16((b[1] - 224) * 4096 + (b[2] - 128) * 64 + (b[3] - 128))
           \o Utf8Decode(SubSeq(b, 4, Len(b)))
  ELSE IF /\ b[1] \in 240..244 /\ IsContinuation(b, 2) /\ IsContinuation(b, 3)
          /\ IsContinuation(b, 4)
          /\ (b[1] - 240) * 262144 + (b[2] - 128) * 4096 \in 65536..1114111
    THEN Utf16((b[1] - 240) * 262144 + (b[2] - 128) * 4096
                 + (b[3] - 128) * 64 + (b[4] - 128))
           \o Utf8Decode(SubSeq(b, 5, Len(b)))
  ELSE <<ReplacementChar>> \o Utf8Decode(Tail(b))

\* new TextDecoder().decode(buffer): UTF-8, not fatal, ignoreBOM false, so
\* a byte order mark that begins the buffer is not part of the text.
TextDecode(b) ==
  IF Len(b) >= 3 /\ SubSeq(b, 1, 3) = Utf8(ByteOrderMark)
  THEN Utf8Decode(SubSeq(b, 4, Len(b)))
  ELSE Utf8Decode(b)

\* --------------------------------------------------------- cipher
\* AES-GCM as what it is to its callers: a stream cipher under (key, iv)
\* followed by an authentication tag of TAG_LENGTH bytes over key, iv and
\* the encrypted bytes.  Keystream and Digest stand for AES in counter mode
\* and for GHASH: the tag differs whenever key, iv or encrypted bytes do.
TAG_LENGTH == 16

Keystream(key, iv, i) ==
  (key.raw[((i - 1) % Len(key.raw)) + 1] + iv[((i - 1) % Len(iv)) + 1] + i) % 256

\* The sum over i of (31 i + 7)(s[i] + 1), as the size of the bag that
\* holds i that many times.
WeightedSum(s) ==
  BagCardinality([i \in 1..Len(s) |-> ((i * 31 + 7) * (s[i] + 1))])

Digest(s) == WeightedSum(s) % 65521

TagBytes(d) ==
  Uint8Array([j \in 1..TAG_LENGTH |-> (((d \div j) + d * j + j) % 256)])

\* Faulty variant of AuthTag: the tag does not depend on the key.
AuthTag_Keyless(key, iv, body) ==
  TagBytes(Digest(<<Len(iv)>> \o iv \o body))

\* The tag of the encrypted bytes under (key, iv).
AuthTag(key, iv, body) ==
  TagBytes(Digest(<<Len(key.raw), Len(iv)>> \o key.raw \o iv \o body))

\* Counter mode, forth and back.
CtrEncrypt(key, iv, data) ==
  Uint8Array([i \in 1..Len(data) |-> ((data[i] + Keystream(key, iv, i)) % 256)])

CtrDecrypt(key, iv, body) ==
  Uint8Array([i \in 1..Len(body) |->
                ((body[i] - Keystream(key, iv, i) + 256) % 256)])

\* Faulty variant of Tagged: the encrypted bytes go out without their tag.
Tagged_NoTag(key, iv, body) == body

\* The output of AES-GCM: the encrypted bytes, then the tag.
Tagged(key, iv, body) == body \o AuthTag(key, iv, body)

\* crypto.subtle.encrypt({name: 'AES-GCM', iv}, key, data).
AesGcmEncrypt(key, iv, data) == Tagged(key, iv, CtrEncrypt(key, iv, data))

\* Faulty variant of AesGcmDecrypt: the tag is cut off without being compared.
AesGcmDecrypt_Unverified(key, iv, data) ==
  IF Len(data) < TAG_LENGTH \/ Len(iv) = 0 THEN Null
  ELSE [opened |-> CtrDecrypt(key, iv, SubSeq(data, 1, Len(data) - TAG_LENGTH))]

\* crypto.subtle.decrypt({name: 'AES-GCM', iv}, key, data): [opened |->
\* bytes], or Null for the OperationError it rejects with.
AesGcmDecrypt(key, iv, data) ==
  IF Len(data) < TAG_LENGTH \/ Len(iv) = 0 THEN Null
  ELSE IF SubSeq(data, Len(data) - TAG_LENGTH + 1, Len(data))
            # AuthTag(key, iv, SubSeq(data, 1, Len(data) - TAG_LENGTH))
    THEN Null
  ELSE [opened |-> CtrDecrypt(key, iv, SubSeq(data, 1, Len(data) - TAG_LENGTH))]

\* Faulty variant of GetRandomValues: the same bytes every time.
GetRandomValues_Constant(rnd) == Uint8Array([i \in 1..IV_LENGTH |-> 0])

\* crypto.getRandomValues(new Uint8Array(IV_LENGTH)), rnd being the state
\* of the generator: it never returns the same bytes twice.
GetRandomValues(rnd) ==
  Uint8Array([i \in 1..IV_LENGTH |-> ((rnd * 37 + i * 11) % 256)])

\* What an async function settles with: the value it resolves to, or the
\* message of the error it rejects with.
Resolved(value) == [outcome |-> Ok, value |-> value]
Rejected(message) == [outcome |-> message, value |-> Null]

\* encryptText(text, key), rnd being the generator state at the call.
EncryptText(text, key, rnd) ==
  [ciphertext |-> ArrayBufferToBase64(
                    AesGcmEncrypt(key, GetRandomValues(rnd), TextEncode(text))),
   iv |-> ArrayBufferToBase64(GetRandomValues(rnd)),
   algorithm |-> "AES-GCM-256"]

\* Faulty variant of DecryptText: the tag is cut off and not verified.
DecryptText_AnyKey(encryptedData, key) ==
  Resolved(TextDecode(CtrDecrypt(
    key, Base64ToArrayBuffer(encryptedData.iv),
    SubSeq(Base64ToArrayBuffer(encryptedData.ciphertext), 1,
           Len(Base64ToArrayBuffer(encryptedData.ciphertext)) - TAG_LENGTH))))

\* The string decryptText returns for what crypto.subtle.decrypt settled with.
DecodedText(opened) ==
  IF opened = Null THEN Rejected(ErrDecryptText)
  ELSE Resolved(TextDecode(opened.opened))

\* decryptText(encryptedData, key): every failure is caught and rethrown as
\* one message.
DecryptText(encryptedData, key) ==
  IF ~IsBase64Key(encryptedData.ciphertext) \/ ~IsBase64Key(encryptedData.iv)
  THEN Rejected(ErrDecryptText)
  ELSE DecodedText(AesGcmDecrypt(key, Base64ToArrayBuffer(encryptedData.iv),
                                 Base64ToArrayBuffer(encryptedData.ciphertext)))

\* encryptFile(file, key): the blob (its bytes) and the detached iv.
EncryptFile(file, key, rnd) ==
  [encryptedBlob |-> AesGcmEncrypt(key, GetRandomValues(rnd), file),
   iv |-> ArrayBufferToBase64(GetRandomValues(rnd)),
   algorithm |-> "AES-GCM-256"]

\* The blob decryptFile returns for what crypto.subtle.decrypt settled with.
DecodedFile(opened) ==
  IF opened = Null THEN Rejected(ErrDecryptFile)
  ELSE Resolved(opened.opened)

\* decryptFile(encryptedBlob, iv, key): the bytes of the blob it returns.
DecryptFile(encryptedBlob, iv, key) ==
  IF ~IsBase64Key(iv) THEN Rejected(ErrDecryptFile)
  ELSE DecodedFile(AesGcmDecrypt(key, Base64ToArrayBuffer(iv), encryptedBlob))

\* -------------------------------------------------- localStorage
\* localStorage is a function from the item names present to their strings.
\* Faulty variant of KeySlot: one key slot for every user.
KeySlot_Shared(userId) == <<KEY_PREFIX, "u1">>

KeySlot(userId) == <<KEY_PREFIX, userId>>
MetaSlot(userId) == <<METADATA_PREFIX, userId>>

GetItem(ls, k) == IF k \in DOMAIN ls THEN ls[k] ELSE Null
SetItem(ls, k, v) == [x \in DOMAIN ls \cup {k} |-> IF x = k THEN v ELSE ls[x]]
RemoveItem(ls, k) == [x \in DOMAIN ls \ {k} |-> ls[x]]

\* ------------------------------------------------- key storage
\* KeyMetadata built by generateAndStoreKey.
NewMetadata(userId, createdAt) ==
  [version |-> KEY_VERSION, createdAt |-> createdAt,
   algorithm |-> KEY_ALGORITHM, userId |-> userId]

\* Faulty variant of GenerateWrites: a record the user already has is kept.
GenerateWrites_IfAbsent(ls, userId, keyData, metadata) ==
  IF GetItem(ls, KeySlot(userId)) # Null THEN ls
  ELSE SetItem(SetItem(ls, KeySlot(userId), keyData),
               MetaSlot(userId), JsonStringify(metadata))

\* generateAndStoreKey: the two setItem calls after the key was generated.
GenerateWrites(ls, userId, keyData, metadata) ==
  SetItem(SetItem(ls, KeySlot(userId), keyData),
          MetaSlot(userId), JsonStringify(metadata))

\* getStoredKey: null when a slot is missing or empty (!keyData ||
\* !metadataStr), the thrown error when the
\* metadata does not parse or the key does not import, the record otherwise.
StoredKey(key, metadataStr) ==
  IF key = Null \/ ~IsJson(metadataStr)
  THEN [outcome |-> ErrRetrieve, value |-> Null]
  ELSE [outcome |-> Ok,
        value |-> [key |-> key, metadata |-> JsonParse(metadataStr)]]

GetStoredKeyResult(keyData, metadataStr) ==
  IF Falsy(keyData) \/ Falsy(metadataStr)
  THEN [outcome |-> Ok, value |-> Null]
  ELSE StoredKey(ImportEncryptionKey(keyData), metadataStr)

\* Faulty variant of GetOrCreatePc: no existence check, always generate.
GetOrCreatePc_NoCheck(keyData, metadataStr) == "generating"

\* getOrCreateKey: where the call goes after the two reads of getStoredKey:
\* on to generateAndStoreKey when getStoredKey returns null, else it awaits
\* the key import of getStoredKey.
GetOrCreatePc(keyData, metadataStr) ==
  IF Falsy(keyData) \/ Falsy(metadataStr) THEN "generating" ELSE "importing"

\* Faulty variant of HasStoredKey: the metadata slot is required as well.
HasStoredKey_BothSlots(ls, userId) ==
  GetItem(ls, KeySlot(userId)) # Null /\ GetItem(ls, MetaSlot(userId)) # Null

\* hasStoredKey: the key slot alone.
HasStoredKey(ls, userId) == GetItem(ls, KeySlot(userId)) # Null

\* Faulty variant of GetKeyMetadata: null without a key slot.
GetKeyMetadata_NeedsKey(ls, userId) ==
  LET metadataStr == GetItem(ls, MetaSlot(userId)) IN
  IF GetItem(ls, KeySlot(userId)) = Null \/ ~IsJson(metadataStr)
  THEN Null ELSE JsonParse(metadataStr)

\* getKeyMetadata: null when the slot is missing or does not parse.
GetKeyMetadata(ls, userId) ==
  LET metadataStr == GetItem(ls, MetaSlot(userId)) IN
  IF Falsy(metadataStr) THEN Null
  ELSE IF IsJson(metadataStr) THEN JsonParse(metadataStr) ELSE Null

\* Faulty variant of ExportKeyForBackup: the metadata slot is not required.
ExportKeyForBackup_KeyOnly(ls, userId, exportedAt) ==
  LET keyData == GetItem(ls, KeySlot(userId)) IN
  IF Falsy(keyData)
  THEN [outcome |-> ErrExport, value |-> Null]
  ELSE [outcome |-> Ok,
        value |-> Btoa(JsonStringify(
                    [version |-> KEY_VERSION, keyData |-> keyData,
                     metadata |-> GetItem(ls, MetaSlot(userId)),
                     exportedAt |-> exportedAt]))]

\* exportKeyForBackup: the bundle string, or the thrown error.
ExportKeyForBackup(ls, userId, exportedAt) ==
  LET keyData == GetItem(ls, KeySlot(userId))
      metadataStr == GetItem(ls, MetaSlot(userId)) IN
  IF Falsy(keyData) \/ Falsy(metadataStr) \/ ~IsJson(metadataStr)
  THEN [outcome |-> ErrExport, value |-> Null]
  ELSE [outcome |-> Ok,
        value |-> Btoa(JsonStringify(
                    [version |-> JsonParse(metadataStr).version,
                     keyData |-> keyData,
                     metadata |-> JsonParse(metadataStr),
                     exportedAt |-> exportedAt]))]

\* Faulty variant of DecodeBackup: the metadata field is not required.
DecodeBackup_NoMetadataCheck(backupData) ==
  IF ~IsBase64(backupData) THEN Null
  ELSE IF ~IsJson(Atob(backupData)) THEN Null
  ELSE LET bundle == JsonParse(Atob(backupData)) IN
       IF "keyData" \notin DOMAIN bundle THEN Null ELSE bundle

\* importKeyFromBackup, decoding and validation (lines 194-200): the bundle,
\* or Null when atob or JSON.parse throws or a field is missing.
DecodeBackup(backupData) ==
  IF ~IsBase64(backupData) THEN Null
  ELSE IF ~IsJson(Atob(backupData)) THEN Null
  ELSE LET bundle == JsonParse(Atob(backupData)) IN
       IF \/ "keyData" \notin DOMAIN bundle
          \/ "metadata" \notin DOMAIN bundle
          \/ Falsy(bundle.keyData)
       THEN Null
       ELSE bundle

\* Faulty variant of ImportMetadata: the bundle's userId is kept.
ImportMetadata_KeepsUser(bundle, userId) == bundle.metadata

\* Faulty variant of ImportMetadata: the metadata is built anew, as
\* generateAndStoreKey builds it, at a later time.
ImportMetadata_Restamped(bundle, userId) ==
  [userId |-> userId, createdAt |-> MaxTime + 1, version |-> KEY_VERSION,
   algorithm |-> KEY_ALGORITHM]

\* importKeyFromBackup: the metadata stored, the bundle's with the userId of
\* the call
\* ({...backup.metadata, userId}: the spread of undefined adds nothing.)
ImportMetadata(bundle, userId) ==
  IF "metadata" \in DOMAIN bundle
  THEN [bundle.metadata EXCEPT !.userId = userId]
  ELSE [userId |-> userId]

\* Faulty variant of ImportWrites: a record the user already has is kept.
ImportWrites_KeepsExisting(ls, userId, bundle) ==
  IF GetItem(ls, KeySlot(userId)) # Null THEN ls
  ELSE SetItem(SetItem(ls, KeySlot(userId), bundle.keyData),
               MetaSlot(userId), JsonStringify(ImportMetadata(bundle, userId)))

\* importKeyFromBackup: the two setItem calls.
ImportWrites(ls, userId, bundle) ==
  SetItem(SetItem(ls, KeySlot(userId), bundle.keyData),
          MetaSlot(userId), JsonStringify(ImportMetadata(bundle, userId)))

\* Faulty variant of DeleteKey: the key slot is left behind.
DeleteKey_MetaOnly(ls, userId) == RemoveItem(ls, MetaSlot(userId))

\* Faulty variant of DeleteKey: the metadata slot is left behind.
DeleteKey_KeyOnly(ls, userId) == RemoveItem(ls, KeySlot(userId))

\* deleteKey: the two removeItem calls.
DeleteKey(ls, userId) == RemoveItem(RemoveItem(ls, KeySlot(userId)), MetaSlot(userId))

\* --------------------------------------------------------- the hook
\* useState initial values; deps is the user id the effect last ran with
\* ("unmounted" before its first run).
InitialHook ==
  [storedKey |-> Null, isLoading |-> TRUE, error |-> NoError, deps |-> "unmounted"]

\* Faulty variant of SignedOut: the key is not cleared.
SignedOut_KeepsKey(h) == [h EXCEPT !.isLoading = FALSE]

\* initializeKey without a user (lines 22-26).
SignedOut(h) == [h EXCEPT !.storedKey = Null, !.isLoading = FALSE]

\* initializeKey with a user, up to the await (lines 29-32).
BeginLoad(h) == [h EXCEPT !.isLoading = TRUE, !.error = NoError]

\* Faulty variant of EndLoad: isLoading is cleared after a resolved load
\* only, not in a finally.
EndLoad_NoFinally(h, outcome, value) ==
  IF outcome = Ok
  THEN [h EXCEPT !.storedKey = value, !.isLoading = FALSE]
  ELSE [h EXCEPT !.error = ErrInit]

\* initializeKey after the await (lines 33-39): the resolved or the rejected
\* getOrCreateKey, then finally.
EndLoad(h, outcome, value) ==
  IF outcome = Ok
  THEN [h EXCEPT !.storedKey = value, !.isLoading = FALSE]
  ELSE [h EXCEPT !.error = ErrInit, !.isLoading = FALSE]

\* The isReady the hook returns.
IsReady(h) == h.storedKey # Null /\ ~h.isLoading

\* storedKey?.metadata.
MetadataOf(storedKey) == IF storedKey = Null THEN Null ELSE storedKey.metadata

\* Faulty variant of Exposed: the hook returns its storedKey state as well.
Exposed_WithKey(h) ==
  [isLoading |-> h.isLoading, error |-> h.error, isReady |-> IsReady(h),
   keyMetadata |-> MetadataOf(h.storedKey), storedKey |-> h.storedKey]

\* The state in the object useEncryption returns.
Exposed(h) ==
  [isLoading |-> h.isLoading, error |-> h.error, isReady |-> IsReady(h),
   keyMetadata |-> MetadataOf(h.storedKey)]

\* The guard of encrypt, decrypt, encryptPhoto and decryptPhoto.
KeyAvailable(h) == h.storedKey # Null

\* ------------------------------------------------------------ state
VARIABLES
  localStorage,  \* the browser's localStorage: item name -> string
  now,           \* what Date.now() returns
  nextKey,       \* the raw bytes the secure generator produces next
  nextIv,        \* the nonce crypto.getRandomValues produces next
  calls,         \* the bag of async key-storage calls in flight
  user,          \* useAuth().user?.id, NoUser when signed out
  hook,          \* the useState values of each mounted useEncryption
  keyOwner,      \* history: the userId whose load set hook[b].storedKey
  payloads,      \* encrypted payloads the application kept
  backup,        \* the exported bundle the user holds, Null when none
  last           \* history: the step just taken and what it returned

vars == <<localStorage, now, nextKey, nextIv, calls, user, hook, keyOwner,
          payloads, backup, last>>

EmptyStorage == [k \in {} |-> Null]

\* A call record before its fields are set.
IdleCall ==
  [op |-> "idle", pc |-> "idle", userId |-> NoUser, owner |-> App,
   keyData |-> Null, metadataStr |-> Null, bundle |-> Null, source |-> Null,
   invalid |-> FALSE, prev |-> Null, clean |-> TRUE, stale |-> FALSE,
   key |-> Null, rnd |-> 0, data |-> <<>>, via |-> "none"]

\* The platform runs at most MaxCalls of them at once.
CanStart == BagCardinality(calls) < MaxCalls
Started(call) == calls (+) SetToBag({call})
Finished(call) == calls (-) SetToBag({call})

\* A step that is no completed operation.
Step(name) ==
  [op |-> name, userId |-> NoUser, owner |-> App, outcome |-> Ok,
   value |-> Null, changed |-> FALSE, info |-> Null]

Done(op, userId, owner, outcome, value, changed, info) ==
  [op |-> op, userId |-> userId, owner |-> owner, outcome |-> outcome,
   value |-> value, changed |-> changed, info |-> info]

\* History: a decryption that settled with res.
Settled(op, userId, owner, res, info) ==
  Done(op, userId, owner, res.outcome, [plaintext |-> res.value], FALSE, info)

\* History: the key and the createdAt of a returned StoredKey.
Returned(value) == [key |-> value.key, createdAt |-> value.metadata.createdAt]

\* History: a delete, an import or a generateAndStoreKey write for userId
\* comes between the getOrCreateKey calls for userId that it overlaps.
Disturb(cs, userId) ==
  BagOfAll(LAMBDA c : IF c.userId = userId /\ c.op = "getOrCreateKey"
                      THEN [c EXCEPT !.prev = Null, !.clean = FALSE]
                      ELSE c,
           cs)

\* Backup strings that are no bundle: not base64, base64 of no JSON, and
\* bundles without keyData or without metadata.
InvalidBackups ==
  { [text |-> "invalid-backup"],
    Btoa([text |-> "not json"]),
    Btoa(JsonStringify([version |-> KEY_VERSION,
                        metadata |-> NewMetadata("u1", 0), exportedAt |-> 0])),
    Btoa(JsonStringify([version |-> KEY_VERSION,
                        keyData |-> ArrayBufferToBase64(KeyBytes(1)), exportedAt |-> 0])) }

\* A bundle with both fields whose key bytes do not import.
BadKeyBackup ==
  Btoa(JsonStringify([version |-> KEY_VERSION,
                      keyData |-> ArrayBufferToBase64(KeyBytes(BadRaw)),
                      metadata |-> NewMetadata("u1", 0), exportedAt |-> 0]))

\* A bundle exportKeyForBackup returned on another device.
ForeignBackup ==
  Btoa(JsonStringify([version |-> KEY_VERSION,
                      keyData |-> ArrayBufferToBase64(KeyBytes(ForeignRaw)),
                      metadata |-> NewMetadata("u1", 0), exportedAt |-> 0]))

BackupInputs ==
  InvalidBackups \cup {BadKeyBackup, ForeignBackup}
    \cup (IF backup = Null THEN {} ELSE {backup.data})

Init ==
  /\ localStorage = EmptyStorage
  /\ now = 0
  /\ nextKey = 1
  /\ nextIv = 1
  /\ calls = EmptyBag
  /\ user = NoUser
  /\ hook = [b \in Instances |-> InitialHook]
  /\ keyOwner = [b \in Instances |-> NoUser]
  /\ payloads = {}
  /\ backup = Null
  /\ last = Step("init")

\* --------------------------------------------------- starting a call
\* Faulty variant of GetOrCreateCall: the existence check reads the items
\* under the bare prefixes, which are never written.
GetOrCreateCall_WrongSlot(userId, owner) ==
  LET keyData == GetItem(localStorage, KeySlot(""))
      metadataStr == GetItem(localStorage, MetaSlot("")) IN
  [IdleCall EXCEPT !.op = "getOrCreateKey",
                   !.pc = GetOrCreatePc(keyData, metadataStr),
                   !.userId = userId, !.owner = owner,
                   !.keyData = keyData, !.metadataStr = metadataStr,
                   !.prev = IF /\ last.op = "getOrCreateKey"
                               /\ last.userId = userId
                               /\ last.outcome = Ok
                               /\ last.info.clean
                            THEN Returned(last.value) ELSE Null]

\* getOrCreateKey(userId) up to its first await: getStoredKey's two getItem.
GetOrCreateCall(userId, owner) ==
  LET keyData == GetItem(localStorage, KeySlot(userId))
      metadataStr == GetItem(localStorage, MetaSlot(userId)) IN
  [IdleCall EXCEPT !.op = "getOrCreateKey",
                   !.pc = GetOrCreatePc(keyData, metadataStr),
                   !.userId = userId, !.owner = owner,
                   !.keyData = keyData, !.metadataStr = metadataStr,
                   !.prev = IF /\ last.op = "getOrCreateKey"
                               /\ last.userId = userId
                               /\ last.outcome = Ok
                               /\ last.info.clean
                            THEN Returned(last.value) ELSE Null]

\* Application code calls getOrCreateKey(userId).
AppGetOrCreateKey(userId) ==
  /\ CanStart
  /\ calls' = Started(GetOrCreateCall(userId, App))
  /\ last' = Step("start")
  /\ UNCHANGED <<localStorage, now, nextKey, nextIv, user, hook, keyOwner,
                 payloads, backup>>

\* Application code calls generateAndStoreKey(userId): it awaits the generator.
AppGenerateAndStoreKey(userId) ==
  /\ CanStart
  /\ calls' = Started([IdleCall EXCEPT !.op = "generateAndStoreKey",
                                       !.pc = "generating", !.userId = userId])
  /\ last' = Step("start")
  /\ UNCHANGED <<localStorage, now, nextKey, nextIv, user, hook, keyOwner,
                 payloads, backup>>

\* importKeyFromBackup(userId, backupData) whose decoding or validation
\* throws: caught, rethrown, nothing written.
ImportRejected(userId, backupData) ==
  /\ DecodeBackup(backupData) = Null
  /\ UNCHANGED <<localStorage, now, nextKey, nextIv, calls, user, hook,
                 keyOwner, payloads, backup>>
  /\ last' = Done("importKeyFromBackup", userId, App, ErrImport, Null,
                  localStorage' # localStorage,
                  [invalid |-> backupData \in InvalidBackups, source |-> Null])

\* importKeyFromBackup(userId, backupData) up to its await of the key import.
ImportStart(userId, backupData) ==
  /\ DecodeBackup(backupData) # Null
  /\ CanStart
  /\ calls' = Started([IdleCall EXCEPT
                         !.op = "importKeyFromBackup",
                         !.pc = "importing", !.userId = userId,
                         !.bundle = DecodeBackup(backupData),
                         !.invalid = backupData \in InvalidBackups,
                         !.source = IF backup # Null /\ backupData = backup.data
                                    THEN backup ELSE Null])
  /\ last' = Step("start")
  /\ UNCHANGED <<localStorage, now, nextKey, nextIv, user, hook, keyOwner,
                 payloads, backup>>

\* ------------------------------------------------ completing a call
\* The continuation of initializeKey in the hook that awaits the call.
Delivered(call, outcome, value) ==
  IF call.owner \in Instances
  THEN [hook EXCEPT ![call.owner] = EndLoad(@, outcome, value)]
  ELSE hook

KeyOwnerAfter(call, outcome) ==
  IF call.owner \in Instances /\ outcome = Ok
  THEN [keyOwner EXCEPT ![call.owner] = call.userId]
  ELSE keyOwner

HookChanged(call) ==
  IF call.owner \in Instances THEN hook'[call.owner] # hook[call.owner] ELSE FALSE

\* What a completed getOrCreateKey / generateAndStoreKey reports.
CallInfo(call, replaced) ==
  [sawRecord |-> ~Falsy(call.keyData) /\ ~Falsy(call.metadataStr),
   keyData |-> call.keyData, replaced |-> replaced, prev |-> call.prev,
   clean |-> call.clean, stale |-> call.stale,
   hookChanged |-> HookChanged(call)]

\* generateAndStoreKey after the generator resolved: metadata, the two
\* writes, the return (and getOrCreateKey's return of it).
CompleteGenerate(call) ==
  /\ call.pc = "generating"
  /\ nextKey <= MaxKeys
  /\ \E gen \in {GenerateEncryptionKey(nextKey)},
        metadata \in {NewMetadata(call.userId, now)} :
     \E value \in {[key |-> gen.key, metadata |-> metadata]} :
       /\ localStorage' = GenerateWrites(localStorage, call.userId, gen.keyData, metadata)
       /\ nextKey' = nextKey + 1
       /\ calls' = Disturb(Finished(call), call.userId)
       /\ hook' = Delivered(call, Ok, value)
       /\ keyOwner' = KeyOwnerAfter(call, Ok)
       /\ UNCHANGED <<now, nextIv, user, payloads, backup>>
       /\ last' = Done(call.op, call.userId, call.owner, Ok, value,
                       localStorage' # localStorage,
                       CallInfo(call,
                                /\ HasStoredKey(localStorage, call.userId)
                                /\ GetItem(localStorage', KeySlot(call.userId))
                                     # GetItem(localStorage, KeySlot(call.userId))))

\* generateAndStoreKey when the generator throws: caught and rethrown.
FailGenerate(call) ==
  /\ call.pc = "generating"
  /\ calls' = Finished(call)
  /\ hook' = Delivered(call, ErrGenerate, Null)
  /\ UNCHANGED <<localStorage, now, nextKey, nextIv, user, keyOwner, payloads,
                 backup>>
  /\ last' = Done(call.op, call.userId, call.owner, ErrGenerate, Null,
                  localStorage' # localStorage, CallInfo(call, FALSE))

\* getOrCreateKey after getStoredKey's key import resolved or threw.
CompleteGetStoredKey(call) ==
  /\ call.op = "getOrCreateKey"
  /\ call.pc = "importing"
  /\ \E res \in {GetStoredKeyResult(call.keyData, call.metadataStr)} :
       /\ calls' = Finished(call)
       /\ hook' = Delivered(call, res.outcome, res.value)
       /\ keyOwner' = KeyOwnerAfter(call, res.outcome)
       /\ UNCHANGED <<localStorage, now, nextKey, nextIv, user, payloads,
                      backup>>
       /\ last' = Done(call.op, call.userId, call.owner, res.outcome,
                       res.value, localStorage' # localStorage,
                       CallInfo(call, FALSE))

\* importKeyFromBackup after the key import resolved (the writes and the
\* return) or threw (caught, rethrown).
CompleteImport(call) ==
  /\ call.op = "importKeyFromBackup"
  /\ call.pc = "importing"
  /\ \E key \in {ImportEncryptionKey(call.bundle.keyData)} :
       /\ IF key = Null
          THEN /\ calls' = Finished(call)
               /\ UNCHANGED <<localStorage>>
          ELSE /\ localStorage' = ImportWrites(localStorage, call.userId,
                                               call.bundle)
               /\ calls' = Disturb(Finished(call), call.userId)
       /\ UNCHANGED <<now, nextKey, nextIv, user, hook, keyOwner, payloads,
                      backup>>
       /\ last' = Done(call.op, call.userId, call.owner,
                       IF key = Null THEN ErrImport ELSE Ok,
                       IF key = Null THEN Null
                       ELSE [key |-> key,
                             metadata |-> ImportMetadata(call.bundle,
                                                         call.userId)],
                       localStorage' # localStorage,
                       [invalid |-> call.invalid, source |-> call.source])

\* ------------------------------------------- synchronous operations
\* deleteKey(userId).
AppDeleteKey(userId) ==
  /\ localStorage' = DeleteKey(localStorage, userId)
  /\ calls' = Disturb(calls, userId)
  /\ backup' = IF backup # Null /\ backup.owner = userId
               THEN [backup EXCEPT !.deleted = TRUE] ELSE backup
  /\ UNCHANGED <<now, nextKey, nextIv, user, hook, keyOwner, payloads>>
  /\ last' = Done("deleteKey", userId, App, Ok, Null,
                  localStorage' # localStorage, Null)

\* exportKeyForBackup(userId); kept: the user keeps the string it returns
\* for a later import.
AppExportKeyForBackup(userId, kept) ==
  LET res == ExportKeyForBackup(localStorage, userId, now) IN
  /\ backup' = IF res.outcome = Ok /\ kept
               THEN [data |-> res.value, owner |-> userId,
                     keyData |-> GetItem(localStorage, KeySlot(userId)),
                     deleted |-> FALSE]
               ELSE backup
  /\ UNCHANGED <<localStorage, now, nextKey, nextIv, calls, user, hook,
                 keyOwner, payloads>>
  /\ last' = Done("exportKeyForBackup", userId, App, res.outcome, res.value,
                  localStorage' # localStorage, Null)

\* getStoredKey(userId) called by application code.  What it returns is
\* fixed by its two reads; the key import it awaits touches no state.
AppGetStoredKey(userId) ==
  \E res \in {GetStoredKeyResult(GetItem(localStorage, KeySlot(userId)),
                                 GetItem(localStorage, MetaSlot(userId)))} :
    /\ UNCHANGED <<localStorage, now, nextKey, nextIv, calls, user, hook,
                   keyOwner, payloads, backup>>
    /\ last' = Done("getStoredKey", userId, App, res.outcome, res.value,
                    localStorage' # localStorage, Null)

\* hasStoredKey(userId).
AppHasStoredKey(userId) ==
  /\ UNCHANGED <<localStorage, now, nextKey, nextIv, calls, user, hook,
                 keyOwner, payloads, backup>>
  /\ last' = Done("hasStoredKey", userId, App, Ok,
                  [result |-> HasStoredKey(localStorage, userId)],
                  localStorage' # localStorage, Null)

\* getKeyMetadata(userId).
AppGetKeyMetadata(userId) ==
  /\ UNCHANGED <<localStorage, now, nextKey, nextIv, calls, user, hook,
                 keyOwner, payloads, backup>>
  /\ last' = Done("getKeyMetadata", userId, App, Ok,
                  GetKeyMetadata(localStorage, userId),
                  localStorage' # localStorage, Null)

\* What a slot can hold that the key storage service did not write: the
\* empty string, text that is no JSON and no base64, key bytes of a length
\* AES does not accept.
CorruptValues(prefix) ==
  IF prefix = KEY_PREFIX
  THEN {EmptyString, ArrayBufferToBase64(KeyBytes(BadRaw))}
  ELSE {EmptyString, [text |-> "corrupted"]}

\* localStorage belongs to the origin: another script, the user or a
\* damaged profile overwrites (v a string) or removes (v null) one slot.
StorageEdited(userId, prefix, v) ==
  /\ GetItem(localStorage, <<prefix, userId>>) # v
  /\ localStorage' = IF v = Null
                     THEN RemoveItem(localStorage, <<prefix, userId>>)
                     ELSE SetItem(localStorage, <<prefix, userId>>, v)
  /\ calls' = Disturb(calls, userId)
  /\ UNCHANGED <<now, nextKey, nextIv, user, hook, keyOwner, payloads, backup>>
  /\ last' = Done("storageEdited", userId, App, Ok, Null,
                  localStorage' # localStorage, Null)

\* Application code encrypts text under the key getStoredKey(userId) returns.
AppEncryptText(userId, text) ==
  /\ nextIv <= MaxPayloads
  /\ \E res \in {GetStoredKeyResult(GetItem(localStorage, KeySlot(userId)),
                                    GetItem(localStorage, MetaSlot(userId)))} :
       /\ res.value # Null
       /\ payloads' = payloads \cup
            {[kind |-> "text",
              data |-> EncryptText(text, res.value.key, nextIv),
              plain |-> text, userId |-> userId,
              keyData |-> GetItem(localStorage, KeySlot(userId))]}
       /\ nextIv' = nextIv + 1
       /\ UNCHANGED <<localStorage, now, nextKey, calls, user, hook, keyOwner,
                      backup>>
       /\ last' = Step("encryptText")

\* Time passes.
Tick ==
  /\ now < MaxTime
  /\ now' = now + 1
  /\ UNCHANGED <<localStorage, nextKey, nextIv, calls, user, hook, keyOwner,
                 payloads, backup>>
  /\ last' = Step("tick")

\* ------------------------------------------------ the hook's steps
\* The auth source reports another identity (sign-in, sign-out, switch).
SetUser(userId) ==
  /\ userId # user
  /\ user' = userId
  /\ UNCHANGED <<localStorage, now, nextKey, nextIv, calls, hook, keyOwner,
                 payloads, backup>>
  /\ last' = Step("setUser")

\* History: the effect ran again, so the loads its earlier runs started are
\* loads for an identity the hook has left.
Superseded(cs, b) ==
  BagOfAll(LAMBDA c : IF c.owner = b THEN [c EXCEPT !.stale = TRUE] ELSE c, cs)

\* The effect runs (user?.id differs from its last run) with no user.
EffectNoUser(b) ==
  /\ hook[b].deps # user
  /\ user = NoUser
  /\ hook' = [hook EXCEPT ![b] = [SignedOut(@) EXCEPT !.deps = user]]
  /\ calls' = Superseded(calls, b)
  /\ UNCHANGED <<localStorage, now, nextKey, nextIv, user, keyOwner, payloads,
                 backup>>
  /\ last' = Done("effectNoUser", user, b, Ok, Null, FALSE,
                  [hadKey |-> KeyAvailable(hook[b])])

\* The effect runs with a user: loading, then getOrCreateKey(user.id).
EffectLoad(b) ==
  /\ hook[b].deps # user
  /\ user # NoUser
  /\ CanStart
  /\ hook' = [hook EXCEPT ![b] = [BeginLoad(@) EXCEPT !.deps = user]]
  /\ calls' = Superseded(calls, b) (+) SetToBag({GetOrCreateCall(user, b)})
  /\ UNCHANGED <<localStorage, now, nextKey, nextIv, user, keyOwner, payloads,
                 backup>>
  /\ last' = Step("effectLoad")

\* What encrypt / decrypt / encryptPhoto / decryptPhoto report: the state
\* of the hook they were invoked in and whether the cipher was run.
HookOpInfo(b, cipherRan) ==
  [wasReady |-> IsReady(hook[b]), isLoading |-> hook[b].isLoading,
   deps |-> hook[b].deps, keyOwner |-> keyOwner[b], cipherRan |-> cipherRan]

\* Faulty variant of encrypt: the refusal is also recorded in the hook's
\* error state.
Encrypt_SetsError(b, text) ==
  /\ ~KeyAvailable(hook[b])
  /\ hook' = [hook EXCEPT ![b].error = ErrNoKey]
  /\ UNCHANGED <<localStorage, now, nextKey, nextIv, calls, user, keyOwner,
                 payloads, backup>>
  /\ last' = Done("encrypt", hook[b].deps, b, ErrNoKey, Null, FALSE,
                  HookOpInfo(b, FALSE))

\* encrypt(text) of the hook.
Encrypt(b, text) ==
  IF ~KeyAvailable(hook[b])
  THEN /\ UNCHANGED <<localStorage, now, nextKey, nextIv, calls, user, hook,
                      keyOwner, payloads, backup>>
       /\ last' = Done("encrypt", hook[b].deps, b, ErrNoKey, Null, FALSE,
                       HookOpInfo(b, FALSE))
  ELSE /\ nextIv <= MaxPayloads
       /\ \E data \in {EncryptText(text, hook[b].storedKey.key, nextIv)} :
            /\ payloads' = payloads \cup
                 {[kind |-> "text", data |-> data,
                   plain |-> text, userId |-> keyOwner[b],
                   keyData |-> ArrayBufferToBase64(hook[b].storedKey.key.raw)]}
            /\ last' = Done("encrypt", hook[b].deps, b, Ok, data, FALSE,
                            HookOpInfo(b, TRUE))
       /\ nextIv' = nextIv + 1
       /\ UNCHANGED <<localStorage, now, nextKey, calls, user, hook, keyOwner,
                      backup>>

\* encryptPhoto(file) of the hook.
EncryptPhoto(b, file) ==
  IF ~KeyAvailable(hook[b])
  THEN /\ UNCHANGED <<localStorage, now, nextKey, nextIv, calls, user, hook,
                      keyOwner, payloads, backup>>
       /\ last' = Done("encryptPhoto", hook[b].deps, b, ErrNoKey, Null, FALSE,
                       HookOpInfo(b, FALSE))
  ELSE /\ nextIv <= MaxPayloads
       /\ \E data \in {EncryptFile(file, hook[b].storedKey.key, nextIv)} :
            /\ payloads' = payloads \cup
                 {[kind |-> "file", data |-> data,
                   plain |-> file, userId |-> keyOwner[b],
                   keyData |-> ArrayBufferToBase64(hook[b].storedKey.key.raw)]}
            /\ last' = Done("encryptPhoto", hook[b].deps, b, Ok, data, FALSE,
                            HookOpInfo(b, TRUE))
       /\ nextIv' = nextIv + 1
       /\ UNCHANGED <<localStorage, now, nextKey, calls, user, hook, keyOwner,
                      backup>>

\* decrypt(encryptedData) of the hook.
Decrypt(b, p) ==
  /\ p.kind = "text"
  /\ UNCHANGED <<localStorage, now, nextKey, nextIv, calls, user, hook,
                 keyOwner, payloads, backup>>
  /\ last' = IF ~KeyAvailable(hook[b])
             THEN Done("decrypt", hook[b].deps, b, ErrNoKey, Null, FALSE,
                       HookOpInfo(b, FALSE))
             ELSE Settled("decrypt", hook[b].deps, b,
                          DecryptText(p.data, hook[b].storedKey.key),
                          HookOpInfo(b, TRUE))

\* decryptPhoto(encryptedBlob, iv) of the hook.
DecryptPhoto(b, p) ==
  /\ p.kind = "file"
  /\ UNCHANGED <<localStorage, now, nextKey, nextIv, calls, user, hook,
                 keyOwner, payloads, backup>>
  /\ last' = IF ~KeyAvailable(hook[b])
             THEN Done("decryptPhoto", hook[b].deps, b, ErrNoKey, Null, FALSE,
                       HookOpInfo(b, FALSE))
             ELSE Settled("decryptPhoto", hook[b].deps, b,
                          DecryptFile(p.data.encryptedBlob, p.data.iv,
                                      hook[b].storedKey.key),
                          HookOpInfo(b, TRUE))

\* ---------------------------------------------------- specifications
\* The key storage service under application code: every operation that
\* writes localStorage, overlapping.
Next ==
  \/ \E u \in Users : AppGetOrCreateKey(u)
  \/ \E u \in Users : AppGenerateAndStoreKey(u)
  \/ \E u \in Users, s \in BackupInputs : ImportRejected(u, s)
  \/ \E u \in Users, s \in BackupInputs : ImportStart(u, s)
  \/ \E call \in BagToSet(calls) : CompleteGenerate(call)
  \/ \E call \in BagToSet(calls) : FailGenerate(call)
  \/ \E call \in BagToSet(calls) : CompleteGetStoredKey(call)
  \/ \E call \in BagToSet(calls) : CompleteImport(call)
  \/ \E u \in Users : AppDeleteKey(u)

Spec == Init /\ [][Next]_vars

\* Overlapping and successive getOrCreateKey calls, deleteKey and the clock.
NextRace ==
  \/ \E u \in Users : AppGetOrCreateKey(u)
  \/ \E call \in BagToSet(calls) : CompleteGenerate(call)
  \/ \E call \in BagToSet(calls) : FailGenerate(call)
  \/ \E call \in BagToSet(calls) : CompleteGetStoredKey(call)
  \/ \E u \in Users : AppDeleteKey(u)
  \/ Tick

SpecRace == Init /\ [][NextRace]_vars

\* Backup and restore by a program that awaits each call before the next:
\* create, encrypt, export, delete, import.
NoneInFlight == calls = EmptyBag

NextBackup ==
  \/ \E u \in Users : NoneInFlight /\ AppGenerateAndStoreKey(u)
  \/ \E call \in BagToSet(calls) : CompleteGenerate(call)
  \/ \E call \in BagToSet(calls) : FailGenerate(call)
  \/ \E u \in Users, t \in Texts : NoneInFlight /\ AppEncryptText(u, t)
  \/ \E u \in Users : NoneInFlight /\ AppExportKeyForBackup(u, TRUE)
  \/ \E u \in Users : NoneInFlight /\ AppDeleteKey(u)
  \/ \E u \in Users, s \in BackupInputs : NoneInFlight /\ ImportRejected(u, s)
  \/ \E u \in Users, s \in BackupInputs : NoneInFlight /\ ImportStart(u, s)
  \/ \E call \in BagToSet(calls) : CompleteImport(call)

SpecBackup == Init /\ [][NextBackup]_vars

\* The useEncryption hook under the auth source and its component.
NextHook ==
  \/ \E u \in Users \cup {NoUser} : SetUser(u)
  \/ \E b \in Bindings : EffectNoUser(b)
  \/ \E b \in Bindings : EffectLoad(b)
  \/ \E call \in BagToSet(calls) : CompleteGenerate(call)
  \/ \E call \in BagToSet(calls) : FailGenerate(call)
  \/ \E call \in BagToSet(calls) : CompleteGetStoredKey(call)
  \/ \E b \in Bindings, t \in Texts : Encrypt(b, t)
  \/ \E b \in Bindings, f \in Files : EncryptPhoto(b, f)
  \/ \E b \in Bindings, p \in payloads : Decrypt(b, p)
  \/ \E b \in Bindings, p \in payloads : DecryptPhoto(b, p)

SpecHook == Init /\ [][NextHook]_vars

\* The useEncryption hook under the auth source alone: the identity changes
\* and the key loads they start, with no operation of the hook invoked.
NextSession ==
  \/ \E u \in Users \cup {NoUser} : SetUser(u)
  \/ \E b \in Bindings : EffectNoUser(b)
  \/ \E b \in Bindings : EffectLoad(b)
  \/ \E call \in BagToSet(calls) : CompleteGenerate(call)
  \/ \E call \in BagToSet(calls) : FailGenerate(call)
  \/ \E call \in BagToSet(calls) : CompleteGetStoredKey(call)

SpecSession == Init /\ [][NextSession]_vars

\* The key storage service called for one operation after another on a
\* localStorage that other parties edit: every operation of the service,
\* on records that are complete, partial or corrupt.
NextStore ==
  \/ \E u \in Users : NoneInFlight /\ AppGenerateAndStoreKey(u)
  \/ \E u \in Users : NoneInFlight /\ AppGetOrCreateKey(u)
  \/ \E u \in Users, s \in BackupInputs : NoneInFlight /\ ImportRejected(u, s)
  \/ \E u \in Users, s \in BackupInputs : NoneInFlight /\ ImportStart(u, s)
  \/ \E call \in BagToSet(calls) : CompleteGenerate(call)
  \/ \E call \in BagToSet(calls) : FailGenerate(call)
  \/ \E call \in BagToSet(calls) : CompleteGetStoredKey(call)
  \/ \E call \in BagToSet(calls) : CompleteImport(call)
  \/ \E u \in Users : NoneInFlight /\ AppDeleteKey(u)
  \/ \E u \in Users : NoneInFlight /\ AppExportKeyForBackup(u, FALSE)
  \/ \E u \in Users : NoneInFlight /\ AppGetStoredKey(u)
  \/ \E u \in Users : NoneInFlight /\ AppHasStoredKey(u)
  \/ \E u \in Users : NoneInFlight /\ AppGetKeyMetadata(u)
  \/ \E u \in Users, prefix \in {KEY_PREFIX, METADATA_PREFIX} :
       \E v \in CorruptValues(prefix) \cup {Null} :
          NoneInFlight /\ StorageEdited(u, prefix, v)

SpecStore == Init /\ [][NextStore]_vars

\* Users who only ever create their own keys: generateAndStoreKey,
\* getOrCreateKey, encryption and deleteKey, overlapping, with no backup
\* imported and no other party writing localStorage.
NextOwnKeys ==
  \/ \E u \in Users : AppGenerateAndStoreKey(u)
  \/ \E u \in Users : AppGetOrCreateKey(u)
  \/ \E call \in BagToSet(calls) : CompleteGenerate(call)
  \/ \E call \in BagToSet(calls) : FailGenerate(call)
  \/ \E call \in BagToSet(calls) : CompleteGetStoredKey(call)
  \/ \E u \in Users, t \in Texts : AppEncryptText(u, t)
  \/ \E u \in Users : AppDeleteKey(u)

SpecOwnKeys == Init /\ [][NextOwnKeys]_vars

\* ------------------------------------------------------- properties
HookOps == {"encrypt", "decrypt", "encryptPhoto", "decryptPhoto"}

InFlight(op, userId) ==
  {c \in BagToSet(calls) : c.op = op /\ c.userId = userId}

\* C1 as stated: under any interleaving of overlapping getOrCreateKey calls
\* for one userId, no getOrCreateKey call replaces a key already written to
\* the user's key slot with a different key.
C1_NeverReplaces ==
  last.op = "getOrCreateKey" => ~last.info.replaced

\* C1 as amended: under any interleaving of overlapping getOrCreateKey calls,
\* a call whose existence check finds the user's record writes nothing and
\* returns the key it found; only a call whose existence check ran before
\* the key was written can replace it.
C1_ExistingRecordKept ==
  (last.op = "getOrCreateKey" /\ last.info.sawRecord) =>
     /\ ~last.changed
     /\ ~last.info.replaced
     /\ last.outcome = Ok
     /\ last.value.key = ImportEncryptionKey(last.info.keyData)

\* A call that found the record returned while a first-time call for the
\* same user was still generating.
C1_Witness ==
  /\ last.op = "getOrCreateKey"
  /\ last.info.sawRecord
  /\ last.outcome = Ok
  /\ \E c \in InFlight("getOrCreateKey", last.userId) : c.pc = "generating"

\* C2: of two getOrCreateKey(userId) calls made one after the other, with no
\* deleteKey, import or generateAndStoreKey write for the user from the start
\* of the first to the return of the second, the second returns the key and
\* the createdAt the first returned and writes nothing to storage.
C2_SecondCallSame ==
  (last.op = "getOrCreateKey" /\ last.info.prev # Null) =>
     /\ last.outcome = Ok
     /\ Returned(last.value) = last.info.prev
     /\ ~last.changed

\* The second call returned after the clock moved past the key's createdAt.
C2_Witness ==
  /\ last.op = "getOrCreateKey"
  /\ last.info.prev # Null
  /\ last.outcome = Ok
  /\ now > last.value.metadata.createdAt

C4_OnlyWhenReady ==
  (last.op \in HookOps /\ ~last.info.wasReady) =>
     /\ last.outcome = ErrNoKey
     /\ ~last.info.cipherRan

\* C5 as stated: the result of a load the hook has left behind (its effect
\* ran again for another identity while the load was in flight) changes
\* nothing in the hook when it resolves: not the key, not isLoading, not
\* error.
C5_StaleLoadDiscarded ==
  (last.op = "getOrCreateKey" /\ last.owner \in Bindings /\ last.info.stale) =>
     ~last.info.hookChanged

\* C6 as stated: whenever the hook reports isReady, the key it holds was
\* loaded by getOrCreateKey for the identity its effect last ran with.
C6_ReadyKeyOfCurrentUser ==
  \A b \in Bindings : IsReady(hook[b]) => keyOwner[b] = hook[b].deps

\* C7 as stated: when the load for the current user fails, the hook records
\* an error, is not ready and holds no usable key.
C7_FailedLoadUnavailable ==
  (/\ last.op = "getOrCreateKey"
   /\ last.owner \in Bindings
   /\ last.outcome # Ok
   /\ ~last.info.stale) =>
     /\ hook[last.owner].error # NoError
     /\ ~IsReady(hook[last.owner])
     /\ ~KeyAvailable(hook[last.owner])

\* C8: right after the effect runs with no user, the hook holds no key: it
\* is neither ready nor loading, and its operations fail with the
\* key-not-available error.
C8_SignOutClearsKey ==
  last.op = "effectNoUser" =>
     /\ hook[last.owner].storedKey = Null
     /\ ~hook[last.owner].isLoading
     /\ ~IsReady(hook[last.owner])
     /\ ~KeyAvailable(hook[last.owner])

\* The effect ran with no user in a hook that held a key.
C8_Witness ==
  /\ last.op = "effectNoUser"
  /\ last.info.hadKey

\* The payloads encrypted under the key the bundle was exported from.
EncryptedUnder(source) ==
  {p \in payloads : p.userId = source.owner /\ p.keyData = source.keyData}

\* C9: exportKeyForBackup(u), deleteKey(u), then importKeyFromBackup(v,
\* bundle), for v equal to u or not, returns and stores a key that decrypts
\* every payload encrypted under u's exported key, and the returned and the
\* stored metadata.userId are v.
C9_BackupRestores ==
  (/\ last.op = "importKeyFromBackup"
   /\ last.info.source # Null
   /\ last.info.source.deleted) =>
     /\ last.outcome = Ok
     /\ last.value.metadata.userId = last.userId
     /\ GetKeyMetadata(localStorage, last.userId).userId = last.userId
     /\ ImportEncryptionKey(GetItem(localStorage, KeySlot(last.userId))) = last.value.key
     /\ \A p \in EncryptedUnder(last.info.source) :
          DecryptText(p.data, last.value.key) = Resolved(p.plain)

\* The bundle of one user was imported for another after the delete, with a
\* payload encrypted before the export.
C9_Witness ==
  /\ last.op = "importKeyFromBackup"
  /\ last.info.source # Null
  /\ last.info.source.deleted
  /\ last.userId # last.info.source.owner
  /\ EncryptedUnder(last.info.source) # {}

\* C10: importKeyFromBackup with a string that is no decodable bundle, or a
\* bundle without keyData or metadata, throws the import error and leaves
\* localStorage as it was.
C10_InvalidBackupRejected ==
  (last.op = "importKeyFromBackup" /\ last.info.invalid) =>
     /\ last.outcome = ErrImport
     /\ ~last.changed

\* An invalid backup was rejected for a user whose two slots exist.
C10_Witness ==
  /\ last.op = "importKeyFromBackup"
  /\ last.info.invalid
  /\ HasStoredKey(localStorage, last.userId)
  /\ GetKeyMetadata(localStorage, last.userId) # Null

\* C11 as stated: importKeyFromBackup with a bundle that has keyData and
\* metadata but whose key bytes do not import writes neither slot and fails
\* with an error that differs from the one an invalid bundle (undecodable,
\* or a field missing) fails with, which is ErrImport.
C11_KeyImportErrorDistinct ==
  (/\ last.op = "importKeyFromBackup"
   /\ ~last.info.invalid
   /\ last.outcome # Ok) =>
     /\ ~last.changed
     /\ last.outcome # ErrImport

\* Neither slot of userId exists.
NoRecord(ls, userId) ==
  KeySlot(userId) \notin DOMAIN ls /\ MetaSlot(userId) \notin DOMAIN ls

\* The operations that can write a record for a user, and an edit of
\* localStorage by another party.
Creators ==
  {"generateAndStoreKey", "getOrCreateKey", "importKeyFromBackup", "storageEdited"}

\* C12: a deleteKey(u) step ends with both slots of u absent; while they are
\* absent hasStoredKey(u) is false, getStoredKey(u) returns null and
\* getKeyMetadata(u) returns null, as computed and as returned by the calls;
\* and only a create or an import for u (or another party's edit of u's
\* slots) ends the absence.
C12_DeleteRemovesRecord ==
  [][\A u \in Users :
       /\ (last'.op = "deleteKey" /\ last'.userId = u) =>
             NoRecord(localStorage', u)
       /\ NoRecord(localStorage', u) =>
             /\ ~HasStoredKey(localStorage', u)
             /\ GetStoredKeyResult(GetItem(localStorage', KeySlot(u)),
                                   GetItem(localStorage', MetaSlot(u)))
                  = [outcome |-> Ok, value |-> Null]
             /\ GetKeyMetadata(localStorage', u) = Null
       /\ (NoRecord(localStorage', u) /\ last'.userId = u) =>
             /\ last'.op = "hasStoredKey" => ~last'.value.result
             /\ last'.op = "getStoredKey" =>
                  last'.outcome = Ok /\ last'.value = Null
             /\ last'.op = "getKeyMetadata" => last'.value = Null
       /\ (NoRecord(localStorage, u) /\ ~NoRecord(localStorage', u)) =>
             last'.userId = u /\ last'.op \in Creators
    ]_vars

\* deleteKey removed a record that getOrCreateKey or generateAndStoreKey
\* had written.
C12_Witness ==
  /\ last.op = "deleteKey"
  /\ last.changed
  /\ NoRecord(localStorage, last.userId)
  /\ nextKey > 1

\* The key getStoredKey imports from userId's key slot, Null when there is
\* none or it does not import.
StoredKeyOf(ls, userId) == ImportEncryptionKey(GetItem(ls, KeySlot(userId)))

\* The operations that generate a key.
Generators == {"generateAndStoreKey", "getOrCreateKey"}

\* The key p was encrypted under is no longer the key in its user's slot:
\* deleteKey removed it (and a later call may have created another).
Orphaned(ls, p) == p.keyData # GetItem(ls, KeySlot(p.userId))

\* C13: with no backup imported, a payload encrypted under a key of u that
\* deleteKey(u) removed is decrypted by no key that getOrCreateKey(u) or
\* generateAndStoreKey(u) creates afterwards: the key a creating call
\* returns decrypts no payload u encrypted before, and in every state the
\* key in u's slot decrypts no payload whose key has left the slot.
C13_DeletedKeyGone ==
  /\ (last.op \in Generators /\ last.outcome = Ok /\ last.changed) =>
       \A p \in payloads :
         p.userId = last.userId =>
            DecryptText(p.data, last.value.key) = Rejected(ErrDecryptText)
  /\ \A p \in payloads :
       Orphaned(localStorage, p) =>
          \A key \in {StoredKeyOf(localStorage, p.userId)} :
             key # Null =>
                DecryptText(p.data, key) = Rejected(ErrDecryptText)

\* getOrCreateKey found no record, created a key and replaced none, for a
\* user with a payload: the key of that payload had been deleted.
C13_Witness ==
  /\ last.op = "getOrCreateKey"
  /\ last.outcome = Ok
  /\ last.changed
  /\ ~last.info.replaced
  /\ \E p \in payloads : p.userId = last.userId

\* C14: when two distinct users each hold a key created by their own
\* getOrCreateKey or generateAndStoreKey call, the two stored keys differ,
\* no payload encrypted under a key of one user decrypts under the stored
\* key of the other, and the key a creating call returns decrypts no
\* payload of another user.
C14_KeysIsolated ==
  /\ \A u, v \in Users :
       u # v =>
         \A ku \in {StoredKeyOf(localStorage, u)},
            kv \in {StoredKeyOf(localStorage, v)} :
            (ku # Null /\ kv # Null) =>
               /\ ku # kv
               /\ \A p \in payloads :
                    p.userId = u =>
                      DecryptText(p.data, kv) = Rejected(ErrDecryptText)
  /\ (last.op \in Generators /\ last.outcome = Ok) =>
       \A p \in payloads :
         p.userId # last.userId =>
            DecryptText(p.data, last.value.key) = Rejected(ErrDecryptText)

\* Both users hold a key of their own and one of them has encrypted a
\* payload under the key now stored.
C14_Witness ==
  \E u, v \in Users :
    /\ u # v
    /\ StoredKeyOf(localStorage, u) # Null
    /\ StoredKeyOf(localStorage, v) # Null
    /\ \E p \in payloads :
         p.userId = u /\ p.keyData = GetItem(localStorage, KeySlot(u))

\* The operations of the key storage service.
StoreOps ==
  {"generateAndStoreKey", "getOrCreateKey", "importKeyFromBackup",
   "exportKeyForBackup", "deleteKey", "getStoredKey", "hasStoredKey",
   "getKeyMetadata"}

\* C15: a step in which the key slot or the metadata slot of a user v
\* changes is a step of an operation invoked with userId v; so every
\* operation invoked with userId u leaves both slots of every other user as
\* they were.
C15_OtherUsersUntouched ==
  [][\A v \in Users :
       (\/ GetItem(localStorage', KeySlot(v)) # GetItem(localStorage, KeySlot(v))
        \/ GetItem(localStorage', MetaSlot(v)) # GetItem(localStorage, MetaSlot(v)))
         => last'.userId = v
    ]_vars

\* An operation of the service wrote the record of one user while another
\* user had a record.
C15_Witness ==
  /\ last.op \in StoreOps
  /\ last.changed
  /\ \E v \in Users : v # last.userId /\ HasStoredKey(localStorage, v)
                        /\ GetKeyMetadata(localStorage, v) # Null

\* Both slots of userId exist.
BothPresent(ls, userId) ==
  KeySlot(userId) \in DOMAIN ls /\ MetaSlot(userId) \in DOMAIN ls

\* Both slots exist, the metadata parses and the key bytes import.
WellFormed(ls, userId) ==
  /\ BothPresent(ls, userId)
  /\ IsJson(GetItem(ls, MetaSlot(userId)))
  /\ StoredKeyOf(ls, userId) # Null

\* C16 as stated: getStoredKey(u) never modifies storage, returns null
\* exactly when a slot of u is missing, and for a well-formed record returns
\* the key imported from the key slot with the parsed metadata.
C16_GetStoredKeyContract ==
  last.op = "getStoredKey" =>
     /\ ~last.changed
     /\ (last.outcome = Ok /\ last.value = Null)
          <=> ~BothPresent(localStorage, last.userId)
     /\ WellFormed(localStorage, last.userId) =>
          /\ last.outcome = Ok
          /\ last.value =
               [key |-> StoredKeyOf(localStorage, last.userId),
                metadata |-> JsonParse(GetItem(localStorage, MetaSlot(last.userId)))]

\* C17 as stated: when both slots of u exist but the metadata does not
\* parse or the key bytes do not import, getStoredKey(u) fails with the
\* retrieval error and does not return null.
C17_CorruptNotAbsent ==
  (/\ last.op = "getStoredKey"
   /\ BothPresent(localStorage, last.userId)
   /\ ~WellFormed(localStorage, last.userId)) =>
     last.outcome = ErrRetrieve

\* C18: exportKeyForBackup(u) changes no storage slot; it throws the export
\* error when a slot of u is absent; and when it returns, the bundle's
\* keyData is the content of u's key slot and its metadata is u's stored
\* metadata.
C18_ExportContract ==
  last.op = "exportKeyForBackup" =>
     /\ ~last.changed
     /\ ~BothPresent(localStorage, last.userId) => last.outcome = ErrExport
     /\ last.outcome = Ok =>
          LET bundle == JsonParse(Atob(last.value)) IN
          /\ bundle.keyData = GetItem(localStorage, KeySlot(last.userId))
          /\ bundle.metadata = JsonParse(GetItem(localStorage, MetaSlot(last.userId)))
          /\ bundle.metadata = GetKeyMetadata(localStorage, last.userId)

\* An export failed for a user with one slot present and the other absent.
C18_Witness ==
  /\ last.op = "exportKeyForBackup"
  /\ last.outcome = ErrExport
  /\ ~BothPresent(localStorage, last.userId)
  /\ ~NoRecord(localStorage, last.userId)

\* C19: getKeyMetadata(u) never throws and never modifies storage; it
\* returns null when u's metadata slot is missing or does not parse and the
\* parsed metadata otherwise, whatever u's key slot holds.
C19_MetadataRead ==
  last.op = "getKeyMetadata" =>
     LET metadataStr == GetItem(localStorage, MetaSlot(last.userId)) IN
     /\ last.outcome = Ok
     /\ ~last.changed
     /\ IF IsJson(metadataStr)
        THEN last.value = JsonParse(metadataStr)
        ELSE last.value = Null

\* getKeyMetadata returned the metadata of a user whose key slot is absent
\* or holds bytes that do not import.
C19_Witness ==
  /\ last.op = "getKeyMetadata"
  /\ last.value # Null
  /\ StoredKeyOf(localStorage, last.userId) = Null

\* C20: hasStoredKey(u) returns true exactly when u's key slot is present,
\* whatever the metadata slot holds; it is false for a user with no record;
\* it is true when a getOrCreateKey(u) that nothing disturbed has returned;
\* and once true it turns false only by deleteKey(u) (or by another party
\* removing u's key slot).
C20_HasKeyTracksKeySlot ==
  [][\A u \in Users :
       /\ (last'.op = "hasStoredKey" /\ last'.userId = u) =>
             (last'.value.result <=> KeySlot(u) \in DOMAIN localStorage')
       /\ NoRecord(localStorage', u) => ~HasStoredKey(localStorage', u)
       /\ (/\ last'.op = "getOrCreateKey"
           /\ last'.userId = u
           /\ last'.outcome = Ok
           /\ last'.info.clean) => HasStoredKey(localStorage', u)
       /\ (HasStoredKey(localStorage, u) /\ ~HasStoredKey(localStorage', u)) =>
             /\ last'.userId = u
             /\ last'.op \in {"deleteKey", "storageEdited"}
    ]_vars

\* hasStoredKey returned true for a user whose metadata slot is absent or
\* does not parse.
C20_Witness ==
  /\ last.op = "hasStoredKey"
  /\ last.value.result
  /\ GetKeyMetadata(localStorage, last.userId) = Null

\* The operations that only read a record.
Readers ==
  {"getStoredKey", "getKeyMetadata", "hasStoredKey", "exportKeyForBackup"}

\* C21: the metadata slot of a user changes only in a step for that user
\* that creates a key (generateAndStoreKey, or getOrCreateKey that saw no
\* record), completes importKeyFromBackup or is deleteKey (or in another
\* party's edit of the slot); a completed import leaves in it the bundle's
\* metadata with userId replaced by the userId of the call and createdAt,
\* version and algorithm as in the bundle; getStoredKey, getKeyMetadata,
\* hasStoredKey, exportKeyForBackup and getOrCreateKey on an existing record
\* leave it as it was.
C21_MetadataFrame ==
  [][\A v \in Users :
       LET before == GetItem(localStorage, MetaSlot(v))
           after == GetItem(localStorage', MetaSlot(v)) IN
       /\ (last'.op = "importKeyFromBackup" /\ last'.outcome = Ok
             /\ last'.userId = v) =>
            \E call \in BagToSet(calls) :
              /\ call.op = "importKeyFromBackup"
              /\ IsJson(after)
              /\ JsonParse(after).userId = v
              /\ JsonParse(after).createdAt = call.bundle.metadata.createdAt
              /\ JsonParse(after).version = call.bundle.metadata.version
              /\ JsonParse(after).algorithm = call.bundle.metadata.algorithm
              /\ DOMAIN JsonParse(after) = DOMAIN call.bundle.metadata
       /\ last'.op \in Readers => after = before
       /\ (last'.op = "getOrCreateKey" /\ last'.info.sawRecord) => after = before
       /\ after # before =>
            /\ last'.userId = v
            /\ \/ last'.op = "generateAndStoreKey" /\ last'.outcome = Ok
               \/ /\ last'.op = "getOrCreateKey" /\ last'.outcome = Ok
                  /\ ~last'.info.sawRecord
               \/ last'.op = "importKeyFromBackup" /\ last'.outcome = Ok
               \/ last'.op = "deleteKey"
               \/ last'.op = "storageEdited"
    ]_vars

\* importKeyFromBackup for u2 completed on a bundle exported for u1, after a
\* key had been generated, and wrote u2's metadata slot.
C21_Witness ==
  /\ last.op = "importKeyFromBackup"
  /\ last.outcome = Ok
  /\ last.userId = "u2"
  /\ last.changed
  /\ nextKey > 1
  /\ JsonParse(GetItem(localStorage, MetaSlot("u2"))).userId = "u2"

\* ------------------------------------------------ crypto primitives
\* Strings of text: the empty string, "hi", "e-acute euro", U+1F600 as its
\* surrogate pair, a byte order mark followed by "h", and a high surrogate
\* on its own.
Strings ==
  { <<>>, <<104, 105>>, <<233, 8364>>, <<55357, 56832>>, <<65279, 104>>,
    <<55357>> }

\* Byte buffers of files: an empty one, the first bytes of a PNG file, and
\* bytes at both ends of the range.
Buffers == { <<>>, <<137, 80>>, <<0, 255, 128>> }

\* The keys generated so far.
Generated == 1..(nextKey - 1)

\* The handles code can hold for a generated key: the one
\* generateEncryptionKey returned, the one importEncryptionKey makes of its
\* keyData, and the one getStoredKey returns while a user's slot holds it.
KeyHandles ==
  {[via |-> "generated", handle |-> GenerateEncryptionKey(r).key] :
     r \in Generated}
  \cup
  {[via |-> "imported",
    handle |-> ImportEncryptionKey(GenerateEncryptionKey(r).keyData)] :
     r \in Generated}
  \cup
  {[via |-> "stored", handle |-> StoredKeyOf(localStorage, u)] :
     u \in {v \in Users : HasStoredKey(localStorage, v)}}

\* crypto.subtle.exportKey('raw', key) as base64: the keyData of a handle.
KeyDataOf(key) == ArrayBufferToBase64(key.raw)

\* The encrypted bytes of a payload.
Ciphertext(p) ==
  IF p.kind = "text" THEN Base64ToArrayBuffer(p.data.ciphertext)
  ELSE p.data.encryptedBlob

\* encryptText(text, key) / encryptFile(file, key) up to the first await:
\* the iv is drawn from the generator.
CryptoEncryptStart(op, h, plain) ==
  /\ CanStart
  /\ calls' = Started([IdleCall EXCEPT
                         !.op = op, !.pc = "encrypting", !.key = h.handle,
                         !.rnd = nextIv, !.data = plain, !.via = h.via,
                         !.keyData = KeyDataOf(h.handle)])
  /\ nextIv' = nextIv + 1
  /\ UNCHANGED <<localStorage, now, nextKey, user, hook, keyOwner, payloads,
                 backup>>
  /\ last' = Step("start")

\* encryptText / encryptFile after crypto.subtle.encrypt resolved; kept:
\* the caller keeps the payloads it had, and not only this one.
CryptoEncryptComplete(call, kept) ==
  /\ call.pc = "encrypting"
  /\ \E data \in {IF call.op = "encryptText"
                   THEN EncryptText(call.data, call.key, call.rnd)
                   ELSE EncryptFile(call.data, call.key, call.rnd)} :
     \E payload \in
        {[kind |-> IF call.op = "encryptText" THEN "text" ELSE "file",
          data |-> data, plain |-> call.data, userId |-> NoUser,
          keyData |-> call.keyData]} :
       /\ calls' = Finished(call)
       /\ payloads' = IF kept THEN payloads \cup {payload} ELSE {payload}
       /\ UNCHANGED <<localStorage, now, nextKey, nextIv, user, hook, keyOwner,
                      backup>>
       /\ last' = Done(call.op, NoUser, App, Ok, data, FALSE,
                       [rnd |-> call.rnd, plain |-> call.data, via |-> call.via,
                        keyData |-> call.keyData,
                        ivReused |-> \E q \in payloads :
                                       /\ q.keyData = call.keyData
                                       /\ q.data.iv = data.iv,
                        repeated |-> \E q \in payloads :
                                       /\ q.keyData = call.keyData
                                       /\ Ciphertext(q) = Ciphertext(payload)])

\* What a party that holds a payload can do to it before it is decrypted:
\* nothing, flip the bits of the byte at a position, append a byte, append
\* base64 text to the ciphertext string, put another iv or a cut iv in
\* place of the iv.
Tampers(p) ==
  {[kind |-> "none", at |-> 0], [kind |-> "append", at |-> 0],
   [kind |-> "ivCut", at |-> 0]}
  \cup {[kind |-> "flip", at |-> i] : i \in 1..Len(Ciphertext(p))}
  \cup {[kind |-> "iv", at |-> n] :
          n \in {m \in 0..(MaxEncryptions + 1) :
                   ArrayBufferToBase64(GetRandomValues(m)) # p.data.iv}}
  \cup (IF p.kind = "text" THEN {[kind |-> "appendText", at |-> 0]} ELSE {})

TamperBytes(bytes, t) ==
  IF t.kind = "flip" THEN [bytes EXCEPT ![t.at] = 255 - @]
  ELSE IF t.kind = "append" THEN bytes \o <<0>>
  ELSE bytes

TamperIv(iv, t) ==
  IF t.kind = "iv" THEN ArrayBufferToBase64(GetRandomValues(t.at))
  ELSE IF t.kind = "ivCut"
    THEN ArrayBufferToBase64(SubSeq(Base64ToArrayBuffer(iv), 1, 8))
  ELSE iv

\* The text 'tampered' as base64 characters.
TamperedText == <<45, 26, 38, 41, 30, 43, 30, 29>>

TamperText(data, t) ==
  [data EXCEPT
     !.ciphertext =
        IF t.kind = "appendText" THEN [keyB64 |-> @.keyB64 \o TamperedText]
        ELSE IF t.kind \in {"flip", "append"}
          THEN ArrayBufferToBase64(TamperBytes(Base64ToArrayBuffer(@), t))
        ELSE @,
     !.iv = TamperIv(@, t)]

DecryptInfo(p, h, t) ==
  [tamper |-> t.kind, via |-> h.via, plain |-> p.plain, data |-> p.data,
   keyData |-> p.keyData,
   sameKey |-> KeyDataOf(h.handle) = p.keyData]

\* decryptText(encryptedData, key) on a payload as t left it.
CryptoDecryptText(p, h, t) ==
  /\ p.kind = "text"
  /\ UNCHANGED <<localStorage, now, nextKey, nextIv, calls, user, hook,
                 keyOwner, payloads, backup>>
  /\ last' = Settled("decryptText", NoUser, App,
                     DecryptText(TamperText(p.data, t), h.handle),
                     DecryptInfo(p, h, t))

\* decryptFile(encryptedBlob, iv, key) on a payload as t left it.
CryptoDecryptFile(p, h, t) ==
  /\ p.kind = "file"
  /\ UNCHANGED <<localStorage, now, nextKey, nextIv, calls, user, hook,
                 keyOwner, payloads, backup>>
  /\ last' = Settled("decryptFile", NoUser, App,
                     DecryptFile(TamperBytes(p.data.encryptedBlob, t),
                                 TamperIv(p.data.iv, t), h.handle),
                     DecryptInfo(p, h, t))

\* The string 'invalid-key-data': '-' is no base64 character.
InvalidKeyData ==
  [keyB64 |-> <<34, 39, 47, 26, 37, 34, 29, NotBase64, 36, 30, 50, NotBase64,
                29, 26, 45, 26>>]

\* Strings handed to importEncryptionKey: the keyData of the generated
\* keys, a string that is no base64, the empty string, and the base64 of 3
\* and of 16 bytes.
KeyStrings ==
  {GenerateEncryptionKey(r).keyData : r \in Generated}
  \cup {InvalidKeyData, [keyB64 |-> <<>>],
        ArrayBufferToBase64(KeyBytes(BadRaw)),
        ArrayBufferToBase64(KeyBytes(ShortRaw))}

\* importEncryptionKey(keyData).
CryptoImportKey(keyData) ==
  \E key \in {ImportEncryptionKey(keyData)} :
  /\ UNCHANGED <<localStorage, now, nextKey, nextIv, calls, user, hook,
                 keyOwner, payloads, backup>>
  /\ last' = Done("importEncryptionKey", NoUser, App,
                  IF key = Null THEN ErrImportKey ELSE Ok, key, FALSE,
                  [keyData |-> keyData,
                   isBase64 |-> AtobAccepts(keyData.keyB64),
                   bits |-> Len(Base64Bytes(StripPad(keyData.keyB64))) * 8])

\* The payloads decryption is tried on: a payload as it is under every
\* handle of every key, and a payload as another party left it under the
\* key that encrypted it.
Attempts(p) ==
  {ht \in KeyHandles \X Tampers(p) :
     \/ ht[2].kind = "none"
     \/ /\ ht[1].via = "generated"
        /\ KeyDataOf(ht[1].handle) = p.keyData}

\* The crypto primitives called one after another on the keys that
\* generateAndStoreKey made for a user: encryption of every kind of text
\* and file, decryption of the latest payload, and key import.
NextCipher ==
  \/ NoneInFlight /\ AppGenerateAndStoreKey("u1")
  \/ \E call \in BagToSet(calls) : CompleteGenerate(call)
  \/ /\ NoneInFlight /\ nextIv <= MaxEncryptions
     /\ \E h \in KeyHandles, s \in Strings :
          CryptoEncryptStart("encryptText", h, s)
  \/ /\ NoneInFlight /\ nextIv <= MaxEncryptions
     /\ \E h \in KeyHandles, f \in Buffers :
          CryptoEncryptStart("encryptFile", h, f)
  \/ \E call \in BagToSet(calls) : CryptoEncryptComplete(call, FALSE)
  \/ /\ NoneInFlight
     /\ \E p \in {q \in payloads : q.kind = "text"} :
          \E ht \in Attempts(p) : CryptoDecryptText(p, ht[1], ht[2])
  \/ /\ NoneInFlight
     /\ \E p \in {q \in payloads : q.kind = "file"} :
          \E ht \in Attempts(p) : CryptoDecryptFile(p, ht[1], ht[2])
  \/ \E k \in KeyStrings : NoneInFlight /\ CryptoImportKey(k)

SpecCipher == Init /\ [][NextCipher]_vars

\* Encryptions only, overlapping: encryptText and encryptFile calls on the
\* keys generateAndStoreKey made for a user, started and completed in any
\* order.
NextNonce ==
  \/ NoneInFlight /\ AppGenerateAndStoreKey("u1")
  \/ \E call \in BagToSet(calls) : CompleteGenerate(call)
  \/ /\ nextIv <= MaxEncryptions /\ CanStart
     /\ \E h \in KeyHandles, s \in Texts :
          CryptoEncryptStart("encryptText", h, s)
  \/ /\ nextIv <= MaxEncryptions /\ CanStart
     /\ \E h \in KeyHandles, f \in Files :
          CryptoEncryptStart("encryptFile", h, f)
  \/ \E call \in BagToSet(calls) : CryptoEncryptComplete(call, TRUE)

SpecNonce == Init /\ [][NextNonce]_vars

\* The hook in use by a component: the identity changes and the key loads,
\* one after another, and encrypt, decrypt, encryptPhoto and decryptPhoto
\* invoked between them.
NextExposure ==
  \/ \E u \in Users \cup {NoUser} : NoneInFlight /\ SetUser(u)
  \/ \E b \in Bindings : EffectNoUser(b)
  \/ \E b \in Bindings : EffectLoad(b)
  \/ \E call \in BagToSet(calls) : CompleteGenerate(call)
  \/ \E call \in BagToSet(calls) : CompleteGetStoredKey(call)
  \/ \E b \in Bindings, t \in Texts : NoneInFlight /\ Encrypt(b, t)
  \/ \E b \in Bindings, f \in Files : NoneInFlight /\ EncryptPhoto(b, f)
  \/ \E b \in Bindings, p \in payloads : NoneInFlight /\ Decrypt(b, p)
  \/ \E b \in Bindings, p \in payloads : NoneInFlight /\ DecryptPhoto(b, p)

SpecExposure == Init /\ [][NextExposure]_vars

\* Two components that use the hook under one auth source: the identity
\* changes, and each instance runs its effect and its key load on its own.
NextInstances ==
  \/ \E u \in Users \cup {NoUser} : SetUser(u)
  \/ \E b \in Instances : EffectNoUser(b)
  \/ \E b \in Instances : EffectLoad(b)
  \/ \E call \in BagToSet(calls) : CompleteGenerate(call)
  \/ \E call \in BagToSet(calls) : FailGenerate(call)
  \/ \E call \in BagToSet(calls) : CompleteGetStoredKey(call)

SpecInstances == Init /\ [][NextInstances]_vars

\* ------------------------------------------------------- C22 .. C28
\* C22 as stated: for every valid key k and every string s, the empty
\* string and multi-byte text included, decryptText(encryptText(s, k), k)
\* returns exactly s.
C22_TextRoundTrip ==
  (/\ last.op = "decryptText"
   /\ last.info.tamper = "none"
   /\ last.info.sameKey) =>
     /\ last.outcome = Ok
     /\ last.value.plaintext = last.info.plain

\* C23: for every key k and every byte buffer b, the zero-length one
\* included, encryptFile(b, k) returns a blob of Len(b) + 16 bytes, and
\* decryptFile on that blob with the returned iv and k resolves to exactly
\* the bytes of b.
C23_FileRoundTrip ==
  /\ last.op = "encryptFile" =>
       Len(last.value.encryptedBlob) = Len(last.info.plain) + 16
  /\ (/\ last.op = "decryptFile"
      /\ last.info.tamper = "none"
      /\ last.info.sameKey) =>
        /\ last.outcome = Ok
        /\ last.value.plaintext = last.info.plain
        /\ Len(last.info.data.encryptedBlob) = Len(last.info.plain) + 16

\* A file of three bytes came back from decryptFile under the key that
\* encrypted it, out of a blob of 19 bytes.
C23_Witness ==
  /\ last.op = "decryptFile"
  /\ last.info.tamper = "none"
  /\ last.info.sameKey
  /\ last.info.plain = <<0, 255, 128>>
  /\ last.outcome = Ok
  /\ last.value.plaintext = <<0, 255, 128>>
  /\ Len(last.info.data.encryptedBlob) = 19

\* C24: across every sequence and interleaving of encryptText and
\* encryptFile calls, no two encryptions under the same key use the same
\* iv, and none returns the encrypted bytes of an earlier one, the
\* plaintext being the same or not.
C24_NonceUnique ==
  /\ last.op \in {"encryptText", "encryptFile"} =>
       /\ ~last.info.ivReused
       /\ ~last.info.repeated
  /\ \A p, q \in payloads :
       (p # q /\ p.keyData = q.keyData) =>
         /\ p.data.iv # q.data.iv
         /\ Ciphertext(p) # Ciphertext(q)

\* The encryptText call that drew its iv first completed after a later
\* call on the same key and the same text had completed: the two overlapped.
C24_Witness ==
  /\ last.op = "encryptText"
  /\ last.info.rnd = 1
  /\ \E q \in payloads :
       /\ q.kind = "text"
       /\ q.keyData = last.info.keyData
       /\ q.plain = last.info.plain
       /\ q.data # last.value

\* C25: decryptText under the key that encrypted a payload, on a copy whose
\* encrypted bytes had a byte flipped or bytes appended, or whose iv was
\* replaced by another iv, rejects with the decryption error and returns
\* no plaintext.
C25_TamperRejected ==
  (/\ last.op = "decryptText"
   /\ last.info.sameKey
   /\ last.info.tamper \in {"flip", "append", "appendText", "iv", "ivCut"}) =>
     /\ last.outcome = ErrDecryptText
     /\ last.value.plaintext = Null

\* decryptText rejected a payload of the text "hi" that had one byte flipped,
\* under the key that encrypted it.
C25_Witness ==
  /\ last.op = "decryptText"
  /\ last.info.sameKey
  /\ last.info.tamper = "flip"
  /\ last.info.plain = <<104, 105>>
  /\ last.outcome = ErrDecryptText
  /\ last.value.plaintext = Null

\* C26: decryptText and decryptFile applied with a key other than the one
\* a payload was encrypted under reject with their decryption error.
C26_WrongKeyRejected ==
  /\ (/\ last.op = "decryptText"
      /\ last.info.tamper = "none"
      /\ ~last.info.sameKey) =>
        /\ last.outcome = ErrDecryptText
        /\ last.value.plaintext = Null
  /\ (/\ last.op = "decryptFile"
      /\ last.info.tamper = "none"
      /\ ~last.info.sameKey) =>
        /\ last.outcome = ErrDecryptFile
        /\ last.value.plaintext = Null

\* decryptFile rejected an untouched blob under the second key generated,
\* the blob having been encrypted under the first.
C26_Witness ==
  /\ last.op = "decryptFile"
  /\ last.info.tamper = "none"
  /\ ~last.info.sameKey
  /\ nextKey > 2
  /\ last.info.keyData = GenerateEncryptionKey(1).keyData
  /\ last.outcome = ErrDecryptFile

\* The handle generateEncryptionKey returned together with keyData.
OriginalHandle(keyData) ==
  GenerateEncryptionKey(
    CHOOSE r \in Generated : GenerateEncryptionKey(r).keyData = keyData).key

\* C27: for every generated key, the handle importEncryptionKey makes of
\* its keyData, directly or by getStoredKey after generateAndStoreKey, is
\* the key itself; it decrypts every payload of that key to what the
\* original handle decrypts it to, and what it encrypts the original handle
\* decrypts.
C27_KeyRoundTrip ==
  /\ (/\ last.op = "importEncryptionKey"
      /\ \E r \in Generated :
           last.info.keyData = GenerateEncryptionKey(r).keyData) =>
        /\ last.outcome = Ok
        /\ last.value = OriginalHandle(last.info.keyData)
  /\ (/\ last.op = "decryptText"
      /\ last.info.via \in {"imported", "stored"}
      /\ last.info.tamper = "none"
      /\ last.info.sameKey) =>
        /\ last.outcome = Ok
        /\ Resolved(last.value.plaintext) =
             DecryptText(last.info.data, OriginalHandle(last.info.keyData))
  /\ (/\ last.op = "decryptFile"
      /\ last.info.via \in {"imported", "stored"}
      /\ last.info.tamper = "none"
      /\ last.info.sameKey) =>
        /\ last.outcome = Ok
        /\ last.value.plaintext = last.info.plain
  /\ (/\ last.op = "encryptText"
      /\ last.info.via \in {"imported", "stored"}) =>
        /\ DecryptText(last.value, OriginalHandle(last.info.keyData)).outcome = Ok
        /\ DecryptText(last.value, OriginalHandle(last.info.keyData)) =
             DecryptText(last.value, ImportEncryptionKey(last.info.keyData))
  /\ (/\ last.op = "encryptFile"
      /\ last.info.via \in {"imported", "stored"}) =>
        DecryptFile(last.value.encryptedBlob, last.value.iv,
                    OriginalHandle(last.info.keyData)) =
          Resolved(last.info.plain)

\* The handle getStoredKey returns for a stored key decrypted a file that
\* was encrypted under that key.
C27_Witness ==
  /\ last.op = "decryptFile"
  /\ last.info.via = "stored"
  /\ last.info.tamper = "none"
  /\ last.info.sameKey
  /\ last.outcome = Ok
  /\ last.info.plain = <<137, 80>>
  /\ last.value.plaintext = <<137, 80>>

\* C28 as stated: importEncryptionKey fails with the key import error and
\* returns no handle whenever its input is not valid base64 or does not
\* decode to a key of 256 bits.
C28_ImportRejects ==
  (/\ last.op = "importEncryptionKey"
   /\ \/ ~last.info.isBase64
      \/ last.info.bits # KEY_LENGTH) =>
     /\ last.outcome = ErrImportKey
     /\ last.value = Null

\* ------------------------------------------------------- C29 .. C30
\* btoa: the character (as a UTF-16 code unit) of a base64 digit.
Base64Char(d) ==
  IF d < 26 THEN 65 + d
  ELSE IF d < 52 THEN 97 + (d - 26)
  ELSE IF d < 62 THEN 48 + (d - 52)
  ELSE IF d = 62 THEN 43
  ELSE IF d = 63 THEN 47
  ELSE 61

\* The characters of a base64 string.
Base64Text(s) == Uint8Array([k \in 1..Len(s.keyB64) |-> Base64Char(s.keyB64[k])])

\* within holds part as a run of consecutive elements.
Contains(within, part) ==
  \E i \in 1..(Len(within) - Len(part) + 1) :
    SubSeq(within, i, i + Len(part) - 1) = part

\* A byte buffer, a text or a base64 string holds the raw bytes of a
\* generated key, as bytes or as the characters of its keyData: it is long
\* enough for the 32 bytes or the 44 characters, and holds them.
KeyDataLength == 4 * (((KEY_LENGTH \div 8) + 2) \div 3)

BytesHoldKey(bytes) ==
  /\ Len(bytes) >= KEY_LENGTH \div 8
  /\ \E r \in Generated : Contains(bytes, GenerateEncryptionKey(r).key.raw)

TextHoldsKey(text) ==
  /\ Len(text) >= KeyDataLength
  /\ \E r \in Generated :
       Contains(text, Base64Text(GenerateEncryptionKey(r).keyData))

Base64HoldsKey(s) ==
  /\ Len(s.keyB64) >= KeyDataLength
  /\ \/ \E r \in Generated :
          Contains(s.keyB64, GenerateEncryptionKey(r).keyData.keyB64)
     \/ IsBase64Key(s) /\ BytesHoldKey(Base64ToArrayBuffer(s))

\* A KeyMetadata with its four fields, none of them a place for key bytes.
IsPlainMetadata(m) ==
  /\ DOMAIN m = {"version", "createdAt", "algorithm", "userId"}
  /\ m.version = KEY_VERSION
  /\ m.algorithm = KEY_ALGORITHM
  /\ m.createdAt \in 0..MaxTime
  /\ m.userId \in Users

\* What the object returned by useEncryption shows of the hook's state.
ExposedIsKeyFree(x) ==
  /\ DOMAIN x = {"isLoading", "error", "isReady", "keyMetadata"}
  /\ x.isLoading \in BOOLEAN
  /\ x.isReady \in BOOLEAN
  /\ x.error \in {NoError, ErrInit}
  /\ x.keyMetadata = Null \/ IsPlainMetadata(x.keyMetadata)

\* What encryptText / encryptFile resolved to.
EncryptedIsKeyFree(data) ==
  /\ data.algorithm = "AES-GCM-256"
  /\ ~Base64HoldsKey(data.iv)
  /\ \/ /\ DOMAIN data = {"ciphertext", "iv", "algorithm"}
        /\ ~Base64HoldsKey(data.ciphertext)
     \/ /\ DOMAIN data = {"encryptedBlob", "iv", "algorithm"}
        /\ ~BytesHoldKey(data.encryptedBlob)

\* C29: the values encrypt, decrypt, encryptPhoto and decryptPhoto settle
\* with, the payloads handed to the caller for the backend, and the state
\* the hook exposes (isLoading, error, isReady, keyMetadata) hold no raw key
\* bytes; in localStorage key bytes are in key slots only.
C29_KeyStaysLocal ==
  /\ \A b \in Bindings : ExposedIsKeyFree(Exposed(hook[b]))
  /\ \A p \in payloads : EncryptedIsKeyFree(p.data)
  /\ \A name \in DOMAIN localStorage :
       /\ name[1] \in {KEY_PREFIX, METADATA_PREFIX}
       /\ name[1] = METADATA_PREFIX =>
            /\ IsJson(localStorage[name])
            /\ IsPlainMetadata(JsonParse(localStorage[name]))
  /\ last.op \in HookOps =>
       /\ last.outcome \in {Ok, ErrNoKey, ErrDecryptText, ErrDecryptFile}
       /\ last.outcome # Ok => last.value \in {Null, [plaintext |-> Null]}
       /\ (last.outcome = Ok /\ last.op \in {"encrypt", "encryptPhoto"}) =>
            EncryptedIsKeyFree(last.value)
       /\ (last.outcome = Ok /\ last.op = "decrypt") =>
            ~TextHoldsKey(last.value.plaintext)
       /\ (last.outcome = Ok /\ last.op = "decryptPhoto") =>
            ~BytesHoldKey(last.value.plaintext)

\* A hook that is ready, its key in the user's key slot, has just resolved
\* encrypt: neither the payload nor the exposed state holds the key.
C29_Witness ==
  /\ last.op = "encrypt"
  /\ last.outcome = Ok
  /\ \E b \in Bindings :
       /\ IsReady(hook[b])
       /\ Exposed(hook[b]).keyMetadata # Null
       /\ hook[b].storedKey.key \in {GenerateEncryptionKey(r).key : r \in Generated}
       /\ GetItem(localStorage, KeySlot(hook[b].deps)) =
            ArrayBufferToBase64(hook[b].storedKey.key.raw)

\* C30 as stated: all instances of the hook that are ready for the same
\* signed-in user at the same time hold the same key, instances whose
\* first loads for that user were started concurrently included.
C30_ReadySameKey ==
  \A b, c \in Instances :
    (/\ IsReady(hook[b])
     /\ IsReady(hook[c])
     /\ hook[b].deps = user
     /\ hook[c].deps = user
     /\ keyOwner[b] = user
     /\ keyOwner[c] = user) =>
       hook[b].storedKey.key = hook[c].storedKey.key

\* ------------------------------------------------------- C31 .. C40
\* First use: getOrCreateKey calls, overlapping, as the only writers of
\* localStorage, and application code that encrypts under the stored key.
NextFirstUse ==
  \/ \E u \in Users : AppGetOrCreateKey(u)
  \/ \E call \in BagToSet(calls) : CompleteGenerate(call)
  \/ \E call \in BagToSet(calls) : FailGenerate(call)
  \/ \E call \in BagToSet(calls) : CompleteGetStoredKey(call)
  \/ \E u \in Users, t \in Texts : AppEncryptText(u, t)

SpecFirstUse == Init /\ [][NextFirstUse]_vars

\* C31 as stated: whenever an overlapping first-time getOrCreateKey call
\* overwrites the key another call for the same userId has written, no
\* ciphertext exists under the overwritten key: every payload of the user
\* still decrypts under the key in the user's slot.
C31_OverwriteHarmless ==
  (last.op = "getOrCreateKey" /\ last.info.replaced) =>
     \A p \in payloads :
       p.userId = last.userId =>
         /\ p.keyData = GetItem(localStorage, KeySlot(last.userId))
         /\ DecryptText(p.data, StoredKeyOf(localStorage, last.userId)).outcome = Ok

\* The getOrCreateKey loads in flight that instance b started for the
\* identity its effect last ran with.
CurrentLoads(b) ==
  {c \in BagToSet(calls) :
     /\ c.op = "getOrCreateKey"
     /\ c.owner = b
     /\ ~c.stale
     /\ c.userId = hook[b].deps}

\* C32 as stated: while the getOrCreateKey load for the signed-in user is in
\* flight the hook is Loading: isLoading is true and isReady is false.
C32_LoadingWhileInFlight ==
  \A b \in Bindings :
    (hook[b].deps = user /\ CurrentLoads(b) # {}) =>
       /\ hook[b].isLoading
       /\ ~IsReady(hook[b])

\* The hook under the auth source with its scheduling: React runs the
\* effect after a commit in which user?.id changed, and the platform
\* settles every getOrCreateKey call.
EffectRuns == \E b \in Bindings : EffectNoUser(b) \/ EffectLoad(b)

LoadSettles ==
  \E call \in BagToSet(calls) :
    CompleteGenerate(call) \/ FailGenerate(call) \/ CompleteGetStoredKey(call)

SpecSettle ==
  /\ Init
  /\ [][NextSession]_vars
  /\ WF_vars(EffectRuns)
  /\ WF_vars(LoadSettles)

\* C33: provided every getOrCreateKey call resolves or fails, a hook that
\* is loading eventually has isLoading false, and once its effect has run
\* for the current identity and none of its loads is in flight isLoading is
\* false: no load leaves it loading forever.
C33_LoadSettles ==
  /\ [](\A b \in Bindings :
          (/\ hook[b].deps = user
           /\ \A c \in BagToSet(calls) : c.owner # b) => ~hook[b].isLoading)
  /\ \A b \in Bindings : hook[b].isLoading ~> ~hook[b].isLoading

\* The load for the signed-in user failed and the hook has left Loading.
C33_Witness ==
  /\ last.op = "getOrCreateKey"
  /\ last.owner = "b1"
  /\ last.outcome # Ok
  /\ hook["b1"].deps = user
  /\ user \in Users
  /\ calls = EmptyBag
  /\ ~hook["b1"].isLoading
  /\ hook["b1"].error = ErrInit

\* The cipher in use: a user signs in and out, the hook loads its key, and
\* encrypt, decrypt, encryptPhoto and decryptPhoto of the hook and
\* encryptText, encryptFile, decryptText and decryptFile of the crypto
\* module are called while key loads and other encryptions are in flight.
NextFrame ==
  \/ \E u \in {"u1", NoUser} : NoneInFlight /\ SetUser(u)
  \/ \E b \in Bindings : EffectNoUser(b)
  \/ \E b \in Bindings : EffectLoad(b)
  \/ \E call \in BagToSet(calls) : CompleteGenerate(call)
  \/ \E call \in BagToSet(calls) : CompleteGetStoredKey(call)
  \/ \E b \in Bindings, t \in Texts : Encrypt(b, t)
  \/ \E b \in Bindings, f \in Files : EncryptPhoto(b, f)
  \/ \E b \in Bindings, p \in payloads : Decrypt(b, p)
  \/ \E b \in Bindings, p \in payloads : DecryptPhoto(b, p)
  \/ /\ nextIv <= MaxEncryptions
     /\ \E h \in KeyHandles, s \in Texts :
          CryptoEncryptStart("encryptText", h, s)
  \/ /\ nextIv <= MaxEncryptions
     /\ \E h \in KeyHandles, f \in Files :
          CryptoEncryptStart("encryptFile", h, f)
  \/ \E call \in BagToSet(calls) : CryptoEncryptComplete(call, TRUE)
  \/ \E p \in payloads, h \in KeyHandles :
       CryptoDecryptText(p, h, [kind |-> "none", at |-> 0])
  \/ \E p \in payloads, h \in KeyHandles :
       CryptoDecryptFile(p, h, [kind |-> "none", at |-> 0])

SpecFrame == Init /\ [][NextFrame]_vars

CipherOps == {"encryptText", "decryptText", "encryptFile", "decryptFile"}

\* A payload decrypted under the key it names gives back its plaintext.
DecryptsToPlain(p) ==
  \E key \in {ImportEncryptionKey(p.keyData)} :
    \E res \in {IF p.kind = "text"
                 THEN DecryptText(p.data, key)
                 ELSE DecryptFile(p.data.encryptedBlob, p.data.iv, key)} :
      res.outcome = Ok /\ res.value = p.plain

\* C34: every step of encryptText, decryptText, encryptFile, decryptFile,
\* and of the hook's encrypt, decrypt, encryptPhoto, decryptPhoto, from its
\* start to its completion, leaves every localStorage slot and the hook's
\* state unchanged; it leaves every other call in flight as it was, and an
\* encryption that completes, whatever else is in flight, returns a payload
\* that decrypts under its own key to its own plaintext.
C34_CipherFrame ==
  [][/\ (\/ last'.op \in CipherOps \cup HookOps
         \/ \E c \in BagToSet(calls') :
              c.pc = "encrypting" /\ CopiesIn(c, calls') > CopiesIn(c, calls))
          => /\ localStorage' = localStorage
             /\ hook' = hook
             /\ \A c \in BagToSet(calls) :
                  c.pc # "encrypting" => CopiesIn(c, calls') = CopiesIn(c, calls)
             /\ \A p \in payloads' \ payloads : DecryptsToPlain(p)
     /\ last'.op \in HookOps \cup {"decryptText", "decryptFile"}
          => calls' = calls]_vars

\* An encryptFile call completed while another encryption was in flight
\* and the hook was Ready.
C34_Witness ==
  /\ last.op = "encryptFile"
  /\ \E c \in BagToSet(calls) : c.pc = "encrypting" /\ c.op = "encryptText"
  /\ \E b \in Bindings : IsReady(hook[b])

\* The hook in a session of one user while application code manages that
\* user's key: generateAndStoreKey and deleteKey are called for the
\* signed-in user while the hook is loading or Ready.
NextKept ==
  \/ \E u \in {"u1", NoUser} : NoneInFlight /\ SetUser(u)
  \/ \E b \in Bindings : EffectNoUser(b)
  \/ \E b \in Bindings : EffectLoad(b)
  \/ \E call \in BagToSet(calls) : CompleteGenerate(call)
  \/ \E call \in BagToSet(calls) : CompleteGetStoredKey(call)
  \/ user \in Users /\ AppGenerateAndStoreKey(user)
  \/ user \in Users /\ AppDeleteKey(user)
  \/ Tick

SpecKept == Init /\ [][NextKept]_vars

\* C35 as stated: whenever the hook is Ready for the signed-in user, the
\* key it holds in memory is the key stored in that user's key slot.
C35_ReadyKeyIsStored ==
  \A b \in Bindings :
    (/\ user \in Users
     /\ hook[b].deps = user
     /\ keyOwner[b] = user
     /\ IsReady(hook[b])) =>
       GetItem(localStorage, KeySlot(user)) = KeyDataOf(hook[b].storedKey.key)

\* C36 as stated: with no overlapping calls, a getOrCreateKey call that
\* found the user's key slot present when it started (hasStoredKey was true)
\* writes nothing: the content of the key slot stays as it was.
C36_WritesOnlyWhenAbsent ==
  (/\ last.op = "getOrCreateKey"
   /\ last.info.keyData # Null) =>
     /\ ~last.changed
     /\ ~last.info.replaced
     /\ GetItem(localStorage, KeySlot(last.userId)) = last.info.keyData

\* A record as getStoredKey read it is corrupt: both slots are present,
\* and the metadata does not parse or the key data does not import.
CorruptRecord(keyData, metadataStr) ==
  /\ keyData # Null
  /\ metadataStr # Null
  /\ \/ ~IsJson(metadataStr)
     \/ ImportEncryptionKey(keyData) = Null

\* C37 as stated: a getOrCreateKey call that read a corrupt record fails
\* and leaves localStorage as it is; it generates no key over the record.
C37_CorruptRecordKept ==
  [][\A call \in BagToSet(calls) :
       (/\ call.op = "getOrCreateKey"
        /\ CorruptRecord(call.keyData, call.metadataStr)
        /\ last'.op = "getOrCreateKey"
        /\ last'.userId = call.userId
        /\ calls' = Finished(call)) =>
          /\ last'.outcome # Ok
          /\ localStorage' = localStorage]_vars

\* C38: importKeyFromBackup(u, bundle) with a bundle that decodes and whose
\* key imports returns successfully, whether u has a stored record or not,
\* and u's key slot then holds the bundle's keyData: a different key u had
\* is replaced without an error.
C38_ImportReplaces ==
  [][\A call \in BagToSet(calls) :
       (/\ call.op = "importKeyFromBackup"
        /\ ImportEncryptionKey(call.bundle.keyData) # Null
        /\ last'.op = "importKeyFromBackup"
        /\ last'.userId = call.userId
        /\ CopiesIn(call, calls') < CopiesIn(call, calls)) =>
          /\ last'.outcome = Ok
          /\ GetItem(localStorage', KeySlot(call.userId)) = call.bundle.keyData
          /\ last'.value.key = ImportEncryptionKey(call.bundle.keyData)]_vars

\* A user's own bundle was imported for that user, whose record had not
\* been deleted since the export and held another key by then, a payload
\* encrypted under it included.
C38_Witness ==
  /\ last.op = "importKeyFromBackup"
  /\ last.outcome = Ok
  /\ last.changed
  /\ last.info.source # Null
  /\ last.info.source.owner = last.userId
  /\ ~last.info.source.deleted
  /\ \E p \in payloads :
       /\ p.userId = last.userId
       /\ p.keyData # GetItem(localStorage, KeySlot(last.userId))

\* generateAndStoreKey called by application code, overlapping, for users
\* with and without a record, while time passes.
NextGenerate ==
  \/ \E u \in Users : AppGenerateAndStoreKey(u)
  \/ \E call \in BagToSet(calls) : CompleteGenerate(call)
  \/ \E call \in BagToSet(calls) : FailGenerate(call)
  \/ \E u \in Users : AppDeleteKey(u)
  \/ Tick

SpecGenerate == Init /\ [][NextGenerate]_vars

\* C39: generateAndStoreKey(u) checks for no record: when it returns, u's
\* key slot holds the key the generator just made and u's metadata slot the
\* metadata built at that time, whatever u's slots held before, and both
\* are what the call returns; when key generation fails, no slot is written.
C39_GenerateOverwrites ==
  last.op = "generateAndStoreKey" =>
    IF last.outcome = Ok
    THEN /\ GetItem(localStorage, KeySlot(last.userId)) =
              GenerateEncryptionKey(nextKey - 1).keyData
         /\ GetItem(localStorage, MetaSlot(last.userId)) =
              JsonStringify(NewMetadata(last.userId, now))
         /\ last.value = [key |-> GenerateEncryptionKey(nextKey - 1).key,
                          metadata |-> NewMetadata(last.userId, now)]
         /\ \A r \in 1..(nextKey - 2) :
              GenerateEncryptionKey(r).keyData #
                GetItem(localStorage, KeySlot(last.userId))
    ELSE ~last.changed

\* generateAndStoreKey returned, after time had passed, for a user who had
\* a record with another key.
C39_Witness ==
  /\ last.op = "generateAndStoreKey"
  /\ last.outcome = Ok
  /\ last.info.replaced
  /\ now = MaxTime
  /\ nextKey > 2

\* C40 as stated: whenever the hook reports isReady, its error is null.
C40_ReadyWithoutError ==
  \A b \in Bindings : IsReady(hook[b]) => hook[b].error = NoError

=============================================================================
